---- MODULE Spec2Model ----
(***************************************************************************)
(* Intel deep-dive pipeline of jpswing: the idempotent queue, the daily    *)
(* budget, the per-(date, session) advisory lock and the LLM               *)
(* summarize / validate / repair / fallback chain.                         *)
(*                                                                         *)
(* Spec         pipeline runs (run / run_intel_only) as database           *)
(*              transactions that may overlap between processes, under the *)
(*              shipped settings, a session cap of zero and a backend      *)
(*              without advisory locks.                                    *)
(* SpecCatchUp  the same runs with intel.process_all_candidates set.       *)
(* SpecChain    one invocation of IntelLlmClient.summarize_symbol_intel,   *)
(*              one model request per step.                                *)
(***************************************************************************)
EXTENDS Integers, Sequences, FiniteSets, TLC

(***************************************************************************)
(* Bounds of the model.                                                    *)
(***************************************************************************)
\* number of pipeline invocations in one behaviour
MaxRuns == 2
\* budget.daily_budget of the configuration (10 by default, scaled down)
DailyBudgetCfg == 2
\* budget.morning_cap of the configuration (4 by default, scaled down)
MorningCapCfg == 1
\* budget.close_cap of the configuration (6 by default, scaled down)
CloseCapCfg == 2

(***************************************************************************)
(* Domains.                                                                *)
(***************************************************************************)
\* processes (scheduler, one-shot CLI) that can be inside a run at a time
Procs == {1, 2}
BusinessDates == {"2026-02-13"}
Sessions == {"morning", "close"}
\* security codes, as the sequence of their characters' digits
Codes == {<<1, 3, 3, 2>>, <<1, 3, 3, 3>>}
Statuses == {"pending", "done", "skipped", "failed"}
\* a row of the EDINET listing: the identifier under docID, as it is written
\* (upper case, lower case, or absent)
Doc(token, written) == [docID |-> [token |-> token, written |-> written]]
\* EDINET documents a listing can carry for one code
Docs == {Doc("S100AAAA", "upper")}
\* the listings of a day on which a filing is listed again in another
\* spelling, a second filing follows, or a row carries no identifier
RefiledListings ==
    {{}, Docs, {Doc("S100AAAA", "lower")}, Docs \cup {Doc("S100BBBB", "upper")},
     {Doc("", "absent")}}
\* _edinet_doc_id returns None
NoDocId == "None"

NoRow == [none |-> TRUE]

VARIABLES
    cfg,          \* settings read by FundIntelOrchestrator.__init__
    queue,        \* committed intel_queue rows, grouped by idempotency key
    budget,       \* committed intel_daily_budget row of each business date
    items,        \* committed intel_items rows: how many the runs of a date inserted
    advisoryLocks,\* transaction-scoped advisory locks held in the database
    runs,         \* each process's open run: its session objects and position
    started,      \* number of invocations so far
    lastStep,     \* what the latest step returned to its caller and the status
                  \* assignments <<from, to, by>> it made
    llm,          \* one invocation of IntelLlmClient.summarize_symbol_intel
    sweep,        \* one invocation of run_intel_auto_recover
    sched,        \* the scheduler process: its mutex and the threads of its jobs
    search,       \* one invocation of CompositeIntelSearchBackend.fetch
    ranker        \* one invocation of rank_priorities

pipelineVars == <<cfg, queue, budget, items, advisoryLocks, runs, started, lastStep>>
vars ==
    <<cfg, queue, budget, items, advisoryLocks, runs, started, lastStep, llm, sweep,
      sched, search, ranker>>

(***************************************************************************)
(* intel/budget.py                                                         *)
(***************************************************************************)
Max(a, b) == IF a >= b THEN a ELSE b
Min(a, b) == IF a <= b THEN a ELSE b

compute_session_allowance(daily_budget, session_cap, done_total, done_session) ==
    LET remaining_total == Max(0, daily_budget - done_total)
        remaining_session == Max(0, session_cap - done_session)
    IN  Min(remaining_total, remaining_session)

\* f"{business_date_iso}:{session_name}:{code}": one string per triple
build_idempotency_key(business_date, session_name, code) ==
    <<business_date, session_name, code>>

Keys == {build_idempotency_key(d, s, c) : d \in BusinessDates, s \in Sessions, c \in Codes}
KeyDate(k) == k[1]
KeySession(k) == k[2]
KeyCode(k) == k[3]

(***************************************************************************)
(* intel/priority.py.  Scores are kept in millionths (the code rounds to   *)
(* six decimals); fund_score, theme_strength and theme_strength_delta are  *)
(* given in hundredths.                                                    *)
(***************************************************************************)
\* STATE_WEIGHT.get(state, 0.2) * 0.25, in millionths
StateWeightMicro(fund_state) ==
    CASE fund_state = "IN" -> 250000
      [] fund_state = "WATCH" -> 150000
      [] OTHER -> 50000

Clamp(lo, hi, x) == Max(lo, Min(hi, x))

RECURSIVE SumOrd(_)
\* sum(ord(c) for c in code): the characters of a code are decimal digits
SumOrd(code) == IF code = <<>> THEN 0 ELSE (48 + Head(code)) + SumOrd(Tail(code))

calculate_priority(item) ==
    LET score == StateWeightMicro(item.fund_state)
                 + Clamp(0, 100, item.fund_score) * 2000
                 + (IF item.has_new_edinet THEN 450000 ELSE 0)
                 + Clamp(0, 100, item.theme_strength) * 700
                 + Clamp(-100, 100, item.theme_strength_delta) * 200
                 + (IF item.has_high_signal_tag THEN 10000 ELSE 0)
        tail == SumOrd(item.code) % 1000
    IN  score + tail

RECURSIVE CodeLess(_, _)
\* str < str of Python: lexicographic on the characters
CodeLess(a, b) ==
    IF b = <<>> THEN FALSE
    ELSE IF a = <<>> THEN TRUE
    ELSE IF Head(a) # Head(b) THEN Head(a) < Head(b)
    ELSE CodeLess(Tail(a), Tail(b))

\* sort key (-priority, code): x comes before y
RankBefore(x, y) ==
    \/ x.priority > y.priority
    \/ x.priority = y.priority /\ CodeLess(x.code, y.code)

RECURSIVE SortRows(_)
SortRows(rows) ==
    IF rows = {} THEN <<>>
    ELSE LET first == CHOOSE x \in rows : \A y \in rows \ {x} : RankBefore(x, y)
         IN  <<first>> \o SortRows(rows \ {first})

\* rows of {"code", "priority"}, sorted by (-priority, code)
rank_priorities(inputs) ==
    SortRows({[code |-> i.code, priority |-> calculate_priority(i)] : i \in inputs})

\* seq[:n] of Python, n None meaning the whole list
Prefix(seq, limited, n) ==
    IF ~limited \/ n >= Len(seq) THEN seq ELSE SubSeq(seq, 1, Max(0, n))

(***************************************************************************)
(* fund_intel_orchestrator.py: helpers                                     *)
(***************************************************************************)
\* the upper-cased alphanumeric characters of docID, None without any
_edinet_doc_id(doc) ==
    IF doc.docID.written = "absent" \/ doc.docID.token = "" THEN NoDocId
    ELSE doc.docID.token

_seed_doc_ids(seed) == {_edinet_doc_id(doc) : doc \in seed} \ {NoDocId}

(***************************************************************************)
(* db/locks.py, db/models.py                                               *)
(***************************************************************************)
\* f"fund_intel:{business_date}:{session_name}", the name both entry points lock
LockName(business_date, session_name) == <<"fund_intel", business_date, session_name>>

\* pg_try_advisory_xact_lock: granted unless another transaction holds the
\* key; a backend without advisory locks raises and the run is allowed
try_advisory_xact_lock(held, lock_name, backend_has_advisory_locks) ==
    IF backend_has_advisory_locks THEN lock_name \notin held ELSE TRUE

\* IntelQueue.idempotency_key is unique: an insert of an existing key fails
UniqueKeyViolation(committed, inserted) ==
    \E k \in inserted : Len(committed[k]) > 0

\* IntelDailyBudget.business_date is the primary key
BudgetKeyViolation(committed_row, budget_new) ==
    budget_new /\ committed_row # NoRow

(***************************************************************************)
(* State of a run: the objects of its SQLAlchemy session                   *)
(***************************************************************************)
ZeroBudget == [done_count |-> 0, morning_done |-> 0, close_done |-> 0]

IdleRun ==
    [pc |-> "idle", date |-> "", session |-> "",
     limited |-> FALSE, max_run |-> 0,
     budget |-> ZeroBudget, budget_new |-> FALSE,
     view |-> [k \in Keys |-> <<>>], inserted |-> {}, dirty |-> {},
     loop_rows |-> <<>>, done |-> 0, new_items |-> 0, summarized |-> 0]

\* the latest step: what it returned, the status assignments it made, the
\* items it enqueued and what happened to the row it processed
Step(returned, done, changes) ==
    [returned |-> returned, done |-> done, changes |-> changes, enqueued |-> {},
     outcome |-> "none"]

\* what the reads of one run find for one code: its fund_universe_state row,
\* the EDINET documents listed for it and its theme strength
InState == [state |-> "IN", fund_score |-> 50, high_signal_tag |-> FALSE]
OutState == [state |-> "OUT", fund_score |-> 0, high_signal_tag |-> FALSE]
NoTheme == [strength |-> 0, delta |-> 0, high_or_rising |-> FALSE]
Discoveries ==
    {[fund |-> OutState, docs |-> {}, theme |-> NoTheme],
     [fund |-> InState, docs |-> {}, theme |-> NoTheme],
     [fund |-> InState, docs |-> Docs, theme |-> NoTheme]}

\* the code whose listing changes between two runs
RefiledCode == <<1, 3, 3, 2>>
RefiledDiscoveries ==
    {[fund |-> InState, docs |-> l, theme |-> NoTheme] : l \in RefiledListings}

\* the shipped settings on PostgreSQL
DefaultConfig ==
    [daily_budget |-> DailyBudgetCfg, morning_cap |-> MorningCapCfg,
     close_cap |-> CloseCapCfg, process_all_candidates |-> FALSE,
     backend_has_advisory_locks |-> TRUE]

\* a session cap that is not positive
ZeroCapConfig == [DefaultConfig EXCEPT !.morning_cap = 0]
\* a backend on which the advisory-lock query raises (SQLite, as in the tests)
NoAdvisoryLockConfig == [DefaultConfig EXCEPT !.backend_has_advisory_locks = FALSE]
\* intel.process_all_candidates: every candidate is processed
CatchUpConfig == [DefaultConfig EXCEPT !.process_all_candidates = TRUE]

Configs == {DefaultConfig, ZeroCapConfig, NoAdvisoryLockConfig}

(***************************************************************************)
(* FundIntelOrchestrator._intel_deepdive, up to the start of the loop      *)
(***************************************************************************)
\* a lookup that finds no row
SelectNothing(view, idem) == <<>>

\* session.scalar(select(IntelQueue).where(idempotency_key == idem)): the
\* rows of that key the session sees
SelectByIdempotencyKey(view, idem) == view[idem]

NewRow(priority, seed_payload) ==
    [priority |-> priority, sources_seed |-> seed_payload, status |-> "pending"]

\* a comparison of the seeds themselves
SeedDiffers(row, seed_payload) == seed_payload # row.sources_seed

\* line 960: the sets of filing ids differ
SeedChanged(row, seed_payload) ==
    _seed_doc_ids(seed_payload) # _seed_doc_ids(row.sources_seed)

\* lines 951-983 for one selected item: the rows of its key afterwards
EnqueueOne(view, idem, priority, seed_payload) ==
    LET existing == SelectByIdempotencyKey(view, idem)
    IN  IF existing # <<>>
        THEN LET row == Head(existing)
                 refreshed == IF SeedChanged(row, seed_payload)
                              THEN [row EXCEPT !.priority = priority,
                                               !.sources_seed = seed_payload,
                                               !.status = "pending"]
                              ELSE [row EXCEPT !.priority = priority]
             IN  <<refreshed>> \o Tail(view[idem])
        ELSE Append(view[idem], NewRow(priority, seed_payload))

\* lines 986-996: failed rows of the date (of the session, unless every
\* candidate is processed) go back to pending
InResetScope(k, d, sn, process_all) ==
    KeyDate(k) = d /\ (process_all \/ KeySession(k) = sn)

HasStatus(rows, st) == \E i \in 1..Len(rows) : rows[i].status = st

\* a select of every row that is not pending
NotPendingRows(view, d, sn, process_all) ==
    {k \in Keys : InResetScope(k, d, sn, process_all)
                  /\ \E st \in Statuses \ {"pending"} : HasStatus(view[k], st)}

\* the select of lines 986-994
FailedRows(view, d, sn, process_all) ==
    {k \in Keys : InResetScope(k, d, sn, process_all) /\ HasStatus(view[k], "failed")}

\* a loop that leaves the selected rows as they are
LeaveAsSelected(rows) == rows

\* the loop of lines 995-996 over the selected rows
ResetToPending(rows) == [i \in 1..Len(rows) |-> [rows[i] EXCEPT !.status = "pending"]]

\* the status assignments that take the committed rows to the session's rows
StatusChanges(before, after, ks, by) ==
    {<<Head(before[k]).status, Head(after[k]).status, by>> :
        k \in {x \in ks : /\ before[x] # <<>>
                          /\ after[x] # <<>>
                          /\ Head(before[x]).status # Head(after[x]).status}}

\* lines 1004-1015: the pending rows in (priority desc, code asc) order; the
\* database may return rows that tie on both in either order
PendingKeys(view, d, sn, process_all) ==
    {k \in Keys : InResetScope(k, d, sn, process_all) /\ HasStatus(view[k], "pending")}

OrderRow(view, k) == [code |-> KeyCode(k), priority |-> Head(view[k]).priority]

PendingOrders(view, ks) ==
    {seq \in [1..Cardinality(ks) -> ks] :
        /\ \A i, j \in 1..Cardinality(ks) : i # j => seq[i] # seq[j]
        /\ \A i, j \in 1..Cardinality(ks) :
              i < j => ~RankBefore(OrderRow(view, seq[j]), OrderRow(view, seq[i]))}

\* lines 894-906: max_run, None (not limited) when every candidate is
\* processed or a cap is not positive
SessionCap(sn) == IF sn = "morning" THEN cfg.morning_cap ELSE cfg.close_cap

IsLimited(sn) ==
    ~cfg.process_all_candidates /\ cfg.daily_budget > 0 /\ SessionCap(sn) > 0

MaxRunOf(row, sn) ==
    compute_session_allowance(cfg.daily_budget, SessionCap(sn), row.done_count,
                              IF sn = "morning" THEN row.morning_done ELSE row.close_done)

\* lines 913-947: discovery and ranking
CandidateCodes(fund, listing, theme) ==
    {c \in Codes : fund[c].state \in {"IN", "WATCH"} \/ listing[c] # {}
                   \/ theme[c].high_or_rising}

RankingInputs(fund, listing, theme) ==
    {[code |-> c, fund_state |-> fund[c].state, fund_score |-> fund[c].fund_score,
      has_new_edinet |-> listing[c] # {},
      theme_strength |-> theme[c].strength,
      theme_strength_delta |-> theme[c].delta,
      has_high_signal_tag |-> fund[c].high_signal_tag] :
        c \in CandidateCodes(fund, listing, theme)}

SeqToSet(seq) == {seq[i] : i \in 1..Len(seq)}

\* the session objects after enqueue, reset and the pending select
DeepDiveStart(d, sn, fund, listing, theme) ==
    LET budget_new == budget[d] = NoRow
        row == IF budget_new THEN ZeroBudget ELSE budget[d]
        limited == IsLimited(sn)
        max_run == IF limited THEN MaxRunOf(row, sn) ELSE 0
        base == [IdleRun EXCEPT !.pc = "body", !.date = d, !.session = sn,
                                        !.budget = row, !.budget_new = budget_new,
                                        !.limited = limited, !.max_run = max_run,
                                        !.view = queue]
        ranked == rank_priorities(RankingInputs(fund, listing, theme))
        selected == SeqToSet(Prefix(ranked, limited, max_run))
        selKey(item) == build_idempotency_key(d, sn, item.code)
        selKeys == {selKey(item) : item \in selected}
        itemOf(k) == CHOOSE item \in selected : selKey(item) = k
        enq == [k \in Keys |->
                  IF k \in selKeys
                  THEN EnqueueOne(queue, k, itemOf(k).priority, listing[KeyCode(k)])
                  ELSE queue[k]]
        inserted == {k \in selKeys : SelectByIdempotencyKey(queue, k) = <<>>}
        reseeded == {k \in selKeys \ inserted :
                        SeedChanged(Head(queue[k]), listing[KeyCode(k)])}
        repriced == {k \in selKeys \ inserted :
                        Head(queue[k]).priority # itemOf(k).priority}
        toReset == FailedRows(enq, d, sn, cfg.process_all_candidates)
        view == [k \in Keys |-> IF k \in toReset THEN ResetToPending(enq[k]) ELSE enq[k]]
        changes == StatusChanges(queue, enq, selKeys, "enqueue")
                   \cup StatusChanges(enq, view, Keys, "reset")
        enqueued == {[key |-> k, priority |-> itemOf(k).priority,
                      seed_payload |-> listing[KeyCode(k)]] : k \in selKeys}
    IN  IF limited /\ max_run <= 0
        THEN [run |-> base, changes |-> {}, enqueued |-> {}]
        ELSE [run |-> [base EXCEPT
                        !.view = view,
                        !.inserted = inserted,
                        !.dirty = {<<k, "priority">> : k \in repriced}
                                  \cup {<<k, "sources_seed">> : k \in reseeded}
                                  \cup {<<k, "status">> : k \in reseeded \cup toReset}],
              changes |-> changes, enqueued |-> enqueued]

(***************************************************************************)
(* Entry points: run and run_intel_only                                    *)
(***************************************************************************)
SetRun(p, rec) == runs' = [runs EXCEPT ![p] = rec]

\* the with-block of an entry point up to the first loop iteration
EnterRun(p, d, sn, fund, listing, theme) ==
    /\ runs[p].pc = "idle"
    \* processes are interchangeable: the lowest idle one takes the run
    /\ \A q \in Procs : q < p => runs[q].pc # "idle"
    /\ started < MaxRuns
    /\ started' = started + 1
    /\ UNCHANGED <<cfg, queue, budget, items, llm, sweep, sched, search, ranker>>
    /\ IF ~try_advisory_xact_lock(advisoryLocks, LockName(d, sn),
                                  cfg.backend_has_advisory_locks)
       THEN /\ lastStep' = Step("locked", 0, {})
            /\ UNCHANGED <<advisoryLocks, runs, search, ranker>>
       ELSE LET start == DeepDiveStart(d, sn, fund, listing, theme)
                early == start.run.limited /\ start.run.max_run <= 0
                pending == PendingKeys(start.run.view, d, sn, cfg.process_all_candidates)
            IN  /\ advisoryLocks' = IF cfg.backend_has_advisory_locks
                                    THEN advisoryLocks \cup {LockName(d, sn)}
                                    ELSE advisoryLocks
                /\ lastStep' = [Step("none", 0, start.changes)
                                  EXCEPT !.enqueued = start.enqueued]
                /\ IF early
                   THEN SetRun(p, start.run)
                   ELSE \E order \in PendingOrders(start.run.view, pending) :
                            SetRun(p, [start.run EXCEPT !.loop_rows =
                                Prefix(order, start.run.limited, start.run.max_run)])

Found(found, field) == [c \in Codes |-> found[c][field]]

run(p) ==
    \E d \in BusinessDates, sn \in Sessions, found \in [Codes -> Discoveries] :
        EnterRun(p, d, sn, Found(found, "fund"), Found(found, "docs"),
                 Found(found, "theme"))

run_intel_only(p) ==
    \E d \in BusinessDates, sn \in Sessions, found \in [Codes -> Discoveries] :
        EnterRun(p, d, sn, Found(found, "fund"), Found(found, "docs"),
                 Found(found, "theme"))

\* a run that starts when no other is inside its body, on a day on which the
\* listing of one code changes from run to run
run_after_refiling(p) ==
    /\ \A q \in Procs : runs[q].pc = "idle"
    /\ \E d \in BusinessDates, sn \in Sessions,
          found \in {f \in [Codes -> Discoveries \cup RefiledDiscoveries] :
                        \A c \in Codes \ {RefiledCode} : f[c] \in Discoveries} :
          EnterRun(p, d, sn, Found(found, "fund"), Found(found, "docs"),
                   Found(found, "theme"))

(***************************************************************************)
(* The loop of _intel_deepdive, lines 1020-1117: one queue row per step    *)
(***************************************************************************)
\* what can happen to one row: search.fetch finds nothing, the record is
\* persisted and notified, or something raises inside the try block before
\* the record is flushed, in the flush itself, after the flush, or after done
\* was incremented
Outcomes == {"no_sources", "persisted", "raise_before_flush", "raise_in_flush",
             "raise_after_flush", "raise_after_done"}

Raising == {"raise_before_flush", "raise_in_flush", "raise_after_flush",
            "raise_after_done"}

\* session.flush() of line 1070 raised: the session has rolled the database
\* transaction back and refuses every further statement until rollback() is
\* called, which only session_scope does
SessionAfter(outcome) ==
    IF outcome = "raise_in_flush" THEN "session_inactive" ELSE "body"

\* a row that is done as soon as the model has answered
StatusAfterSummary(outcome) ==
    IF outcome = "no_sources" THEN "skipped" ELSE "done"

\* lines 1033, 1080 and 1116: the status the iteration leaves
StatusAfter(outcome) ==
    CASE outcome = "no_sources" -> "skipped"
      [] outcome = "persisted" -> "done"
      [] OTHER -> "failed"

\* a count of every row for which the model was asked
CountedRegardless(outcome) == IF outcome = "no_sources" THEN 0 ELSE 1

\* line 1081: done += 1 is reached
Counted(outcome) == IF outcome \in {"persisted", "raise_after_done"} THEN 1 ELSE 0

\* line 1070: session.flush() of the new IntelItem is passed
Flushed(outcome) ==
    IF outcome \in {"persisted", "raise_after_flush", "raise_after_done"} THEN 1 ELSE 0

\* line 1051: summarize_symbol_intel is called
Summarized(outcome) == IF outcome = "no_sources" THEN 0 ELSE 1

SetStatus(rows, st) == <<[Head(rows) EXCEPT !.status = st]>> \o Tail(rows)

\* the row's processing, with the except branch of line 1115
ProcessRow(r, k, outcome) ==
    [r EXCEPT
        !.pc = SessionAfter(outcome),
        !.view = [@ EXCEPT ![k] = SetStatus(@, StatusAfter(outcome))],
        !.dirty = @ \cup {<<k, "status">>},
        !.loop_rows = Tail(@),
        !.done = @ + Counted(outcome),
        !.new_items = @ + Flushed(outcome),
        !.summarized = @ + Summarized(outcome)]

\* the end of the transaction releases its pg_advisory_xact_lock
ReleaseLock(r) == advisoryLocks \ {LockName(r.date, r.session)}

ProcessEntry(p) ==
    /\ runs[p].pc = "body"
    /\ runs[p].loop_rows # <<>>
    /\ \E outcome \in Outcomes :
         LET k == Head(runs[p].loop_rows)
             after == ProcessRow(runs[p], k, outcome)
         IN  /\ SetRun(p, after)
             /\ lastStep' = [Step(IF outcome \in Raising THEN "caught" ELSE "none", 0,
                                  StatusChanges(runs[p].view, after.view, {k}, "process"))
                                EXCEPT !.outcome = outcome]
             \* the rollback of the failed flush ends the database transaction
             \* and with it the transaction-level advisory lock
             /\ advisoryLocks' = IF after.pc = "session_inactive"
                                    /\ cfg.backend_has_advisory_locks
                                 THEN ReleaseLock(runs[p]) ELSE advisoryLocks
    /\ UNCHANGED <<cfg, queue, budget, items, started, llm, sweep, sched, search, ranker>>

\* a pause that gives up the entries that remain
PauseMarkingFailed(p) ==
    /\ runs[p].pc = "body"
    /\ runs[p].loop_rows # <<>>
    /\ SetRun(p, [runs[p] EXCEPT
                    !.loop_rows = <<>>,
                    !.view = [k \in Keys |->
                                IF k \in SeqToSet(runs[p].loop_rows)
                                THEN SetStatus(@[k], "failed") ELSE @[k]],
                    !.dirty = @ \cup {<<k, "status">> : k \in SeqToSet(runs[p].loop_rows)}])
    /\ lastStep' = Step("paused", 0, {})
    /\ UNCHANGED <<cfg, queue, budget, items, advisoryLocks, started, llm, sweep, sched, search, ranker>>

\* _should_pause_for_upcoming_tech returned true: break, the rest stays as it is
PauseBreak(p) ==
    /\ runs[p].pc = "body"
    /\ runs[p].loop_rows # <<>>
    /\ SetRun(p, [runs[p] EXCEPT !.loop_rows = <<>>])
    /\ lastStep' = Step("paused", 0, {})
    /\ UNCHANGED <<cfg, queue, budget, items, advisoryLocks, started, llm, sweep, sched, search, ranker>>

(***************************************************************************)
(* End of the run: lines 1119-1125, the caller's notifications and the     *)
(* commit of session_scope                                                 *)
(***************************************************************************)
\* the budget object after lines 1119-1123
BudgetAfter(row, sn, done) ==
    [row EXCEPT !.done_count = @ + done,
                !.morning_done = IF sn = "morning" THEN @ + done ELSE @,
                !.close_done = IF sn = "morning" THEN @ ELSE @ + done]

\* the UPDATE (or INSERT) the commit's flush emits for the budget object:
\* the columns whose value changed are written with the object's values
FlushBudget(committed_row, r) ==
    LET obj == BudgetAfter(r.budget, r.session, r.done)
    IN  IF r.budget_new THEN obj
        ELSE IF r.done = 0 THEN committed_row
        ELSE [committed_row EXCEPT
                !.done_count = obj.done_count,
                !.morning_done = IF r.session = "morning" THEN obj.morning_done ELSE @,
                !.close_done = IF r.session = "morning" THEN @ ELSE obj.close_done]

\* the INSERTs and UPDATEs of the queue rows the session changed
FlushRows(committed, r, k) ==
    IF k \in r.inserted THEN committed \o r.view[k]
    ELSE IF committed = <<>> \/ r.view[k] = <<>> THEN committed
    ELSE LET mine == Head(r.view[k])
             row == Head(committed)
         IN  <<[row EXCEPT
                  !.priority = IF <<k, "priority">> \in r.dirty THEN mine.priority ELSE @,
                  !.sources_seed = IF <<k, "sources_seed">> \in r.dirty
                                   THEN mine.sources_seed ELSE @,
                  !.status = IF <<k, "status">> \in r.dirty THEN mine.status ELSE @]>>
             \o Tail(committed)

Commit(p) ==
    LET r == runs[p]
    IN  /\ r.pc = "body"
        /\ r.loop_rows = <<>>
        /\ advisoryLocks' = IF cfg.backend_has_advisory_locks THEN ReleaseLock(r)
                            ELSE advisoryLocks
        /\ SetRun(p, IdleRun)
        /\ UNCHANGED <<cfg, started, llm, sweep, sched, search, ranker>>
        /\ IF UniqueKeyViolation(queue, r.inserted)
              \/ BudgetKeyViolation(budget[r.date], r.budget_new)
           THEN /\ lastStep' = Step("raised", r.done, {})
                /\ UNCHANGED <<queue, budget, items, search, ranker>>
           ELSE /\ lastStep' = Step("ok", r.done, {})
                /\ queue' = [k \in Keys |-> FlushRows(queue[k], r, k)]
                /\ budget' = [budget EXCEPT ![r.date] = FlushBudget(@, r)]
                /\ items' = [items EXCEPT ![r.date] = @ + r.new_items]

\* an exception outside the per-row try block (a query, a notification of
\* the caller, the commit; the next statement of a session whose flush has
\* failed: q.code of line 1029 or the budget of line 1119) or the end of the
\* process: session_scope rolls back
Abort(p) ==
    /\ runs[p].pc \in {"body", "session_inactive"}
    /\ SetRun(p, IdleRun)
    /\ advisoryLocks' = IF cfg.backend_has_advisory_locks /\ runs[p].pc = "body"
                        THEN ReleaseLock(runs[p]) ELSE advisoryLocks
    /\ lastStep' = Step("raised", runs[p].done, {})
    /\ UNCHANGED <<cfg, queue, budget, items, started, llm, sweep, sched, search, ranker>>

(***************************************************************************)
(* IntelLlmClient: texts and the evidence of one invocation                *)
(***************************************************************************)
\* self.retries of the client (2 by default, scaled down)
LlmRetries == 1
\* retries=1 of the repair call
RepairRetries == 1
\* evidence items handed to one invocation
MaxEvidence == 2

\* a text value: what it says and how it is written (plain; with irregular
\* whitespace; longer than the field's limit; clipped to the limit). Python's
\* None is the value of form "none"
Text(val, form) == [val |-> val, form |-> form]
NoneValue == Text("", "none")
EmptyText == Text("", "plain")
Unknown == Text("unknown", "plain")
ModelText == Text("from_model", "plain")

\* re.sub(r"\s+", " ", str(value or "")).strip(), clipped to the limit
_clean_text(value) ==
    IF value.form = "none" \/ value.val = "" THEN EmptyText
    ELSE IF value.form \in {"long", "clipped"} THEN Text(value.val, "clipped")
    ELSE Text(value.val, "plain")

SourceUrls == {Text("u1", "plain"), Text("u2", "long"), EmptyText}
SourceTypes == {Text("edinet", "plain"), Text("company_ir", "plain")}
PublishedAts == {NoneValue, Text("d1", "plain"), Text("d2", "spaced")}

\* what a full_text or a snippet is to _is_substantive_text: nothing, fewer
\* than 24 characters, a text with one of the error tokens, a text
TextKinds == {"none", "short", "error_page", "substantive"}

\* the dicts the orchestrator builds from the IntelSource items
EvidenceRows == [source_url : SourceUrls, source_type : SourceTypes,
                 published_at : PublishedAts, full_text : {"substantive"},
                 snippet : {"none"}, xbrl_facts : {<<>>}]

EvidenceLists == UNION {[1..n -> EvidenceRows] : n \in 1..MaxEvidence}

\* evidence of one source whose text, snippet, facts and date vary; an
\* xbrl_facts item is a fact or a blank text
TextEvidenceRows ==
    [source_url : {Text("u1", "plain")}, source_type : {Text("edinet", "plain")},
     published_at : {NoneValue, Text("d1", "plain")},
     full_text : {"none", "error_page", "substantive"},
     snippet : {"none", "substantive"},
     xbrl_facts : {<<>>, <<"blank">>, <<"fact">>}]

TextEvidenceLists == UNION {[1..n -> TextEvidenceRows] : n \in 1..MaxEvidence}

_is_substantive_text(value) == value = "substantive"

_has_substantive_full_text(source_payload) ==
    \E i \in 1..Len(source_payload) : _is_substantive_text(source_payload[i].full_text)

_has_xbrl_facts(source_payload) ==
    \E i \in 1..Len(source_payload) :
        \E k \in 1..Len(source_payload[i].xbrl_facts) :
            source_payload[i].xbrl_facts[k] # "blank"

\* a sequence without the later copies of its elements
RECURSIVE Distinct(_)
Distinct(seq) ==
    IF seq = <<>> THEN <<>>
    ELSE LET front == Distinct(SubSeq(seq, 1, Len(seq) - 1))
             last == seq[Len(seq)]
         IN  IF last \in SeqToSet(front) THEN front ELSE Append(front, last)

\* the first elements of a sequence, limit of them at most
FirstOf(seq, limit) == SubSeq(seq, 1, IF Len(seq) < limit THEN Len(seq) ELSE limit)

RECURSIVE XbrlFacts(_)
XbrlFacts(source_payload) ==
    IF source_payload = <<>> THEN <<>>
    ELSE SelectSeq(Head(source_payload).xbrl_facts, LAMBDA item : item # "blank")
            \o XbrlFacts(Tail(source_payload))

\* the first sentence of the full text of a row, else of its snippet
RECURSIVE TextFacts(_)
TextFacts(source_payload) ==
    IF source_payload = <<>> THEN <<>>
    ELSE LET row == Head(source_payload)
             chosen == IF _is_substantive_text(row.full_text) THEN <<"full_text">>
                       ELSE IF _is_substantive_text(row.snippet) THEN <<"snippet">>
                       ELSE <<>>
         IN  chosen \o TextFacts(Tail(source_payload))

\* lines 538-574: the XBRL facts, then one fact per row with a text, no fact
\* twice, limit of them at most
_build_deterministic_facts(source_payload, limit) ==
    FirstOf(Distinct(XbrlFacts(source_payload) \o TextFacts(source_payload)), limit)

\* lines 517-536: one of three sentences about the headline
_build_deterministic_summary(source_payload, facts) ==
    IF facts # <<>> THEN "headline_with_facts"
    ELSE IF _has_substantive_full_text(source_payload) THEN "headline_text_without_facts"
    ELSE "headline_text_insufficient"

\* the gaps _fallback lists, in its order
FallbackGaps(source_payload, meta, facts, reason) ==
    (IF _has_substantive_full_text(source_payload) THEN <<>>
     ELSE <<"full_text_insufficient">>)
    \o (IF _has_xbrl_facts(source_payload) THEN <<>> ELSE <<"xbrl_missing">>)
    \o (IF meta.published_at = NoneValue THEN <<"published_at_missing">> ELSE <<>>)
    \o (IF reason # "" THEN <<"llm_error">> ELSE <<>>)
    \o (IF facts = <<>> THEN <<"no_facts">> ELSE <<>>)

\* _normalize_text_list of texts that are neither empty nor placeholders
_normalize_text_list(value, limit) == FirstOf(Distinct(value), limit)

\* the loop of _resolve_source_meta: the first value of each field that is
\* not empty after cleaning; the loop ends at five evidence references
RECURSIVE ResolveRows(_, _)
ResolveRows(rows, acc) ==
    IF rows = <<>> THEN acc
    ELSE LET row == Head(rows)
             row_url == _clean_text(row.source_url)
             row_type == _clean_text(row.source_type)
             row_published == _clean_text(row.published_at)
             next == [source_url |-> IF acc.source_url = EmptyText THEN row_url
                                     ELSE acc.source_url,
                      source_type |-> IF acc.source_type = EmptyText THEN row_type
                                      ELSE acc.source_type,
                      published_at |-> IF acc.published_at = NoneValue
                                          /\ row_published # EmptyText
                                       THEN row_published ELSE acc.published_at,
                      evidence_refs |-> IF row_url # EmptyText
                                           /\ row_url \notin SeqToSet(acc.evidence_refs)
                                        THEN Append(acc.evidence_refs, row_url)
                                        ELSE acc.evidence_refs]
         IN  IF Len(next.evidence_refs) >= 5 THEN next
             ELSE ResolveRows(Tail(rows), next)

_resolve_source_meta(source_payload) ==
    LET acc == ResolveRows(source_payload,
                           [source_url |-> EmptyText, source_type |-> EmptyText,
                            published_at |-> NoneValue, evidence_refs |-> <<>>])
    IN  [source_url |-> IF acc.source_url = EmptyText THEN Unknown ELSE acc.source_url,
         source_type |-> IF acc.source_type = EmptyText THEN Unknown ELSE acc.source_type,
         published_at |-> acc.published_at,
         evidence_refs |-> acc.evidence_refs]

\* the fields of the returned payload that the model (of this module) keeps
_fallback(source_payload, reason) ==
    LET meta == _resolve_source_meta(source_payload)
        facts == _build_deterministic_facts(source_payload, 3)
    IN  [payload |-> [published_at |-> meta.published_at,
                      source_url |-> meta.source_url,
                      source_type |-> meta.source_type,
                      summary |-> _build_deterministic_summary(source_payload, facts),
                      tags |-> {},
                      data_gaps |-> _normalize_text_list(
                                        FallbackGaps(source_payload, meta, facts, reason),
                                        4)],
         valid |-> FALSE,
         error |-> Text(reason, "plain")]

\* a merge that keeps the source fields of the model's output
MergeKeepingModelFields(parsed, source_payload) ==
    [payload |-> [published_at |-> parsed.published_at,
                  source_url |-> parsed.source_url,
                  source_type |-> parsed.source_type,
                  tags |-> parsed.tags,
                  data_gaps |-> parsed.data_gaps],
     valid |-> TRUE,
     error |-> NoneValue]

_merge_source_fields(parsed, source_payload) ==
    LET meta == _resolve_source_meta(source_payload)
    IN  [payload |-> [published_at |-> meta.published_at,
                      source_url |-> meta.source_url,
                      source_type |-> meta.source_type,
                      tags |-> parsed.tags,
                      data_gaps |-> parsed.data_gaps],
         valid |-> TRUE,
         error |-> NoneValue]

(***************************************************************************)
(* IntelLlmClient.summarize_symbol_intel: one model request per step       *)
(***************************************************************************)
\* what the endpoint does with one request: the connection fails or times
\* out, it answers with an error status, with a body that is no JSON or no
\* object, with an object without choices, or with a message content that
\* is no JSON, no object, an object with two of the fields, an object with
\* the fields of the prompt's output_schema_hint, or an object with every
\* property of the schema
Responses == {"timeout", "connect_error", "http_503", "http_404", "body_not_json",
              "body_not_dict", "no_choices", "content_not_json", "content_not_object",
              "content_invalid", "content_hinted", "content_valid"}

\* _run_openai_chat and _run_lmstudio_mcp raise: httpx.post, the temporary
\* statuses, raise_for_status, resp.json(), the isinstance check
RequestRaises(resp) ==
    resp \in {"timeout", "connect_error", "http_503", "http_404", "body_not_json",
              "body_not_dict"}

\* str(exc): a timeout of httpx carries no message
ErrorText(resp) == IF resp = "timeout" THEN "" ELSE resp

\* _extract_content raises when the response holds no message content
ExtractRaises(resp) == resp = "no_choices"

\* the record a valid message content parses to: the schema requires the
\* source fields, so the model's output carries values for them
ModelRecord ==
    [published_at |-> ModelText, source_url |-> ModelText, source_type |-> ModelText,
     tags |-> {"tag"}, data_gaps |-> {}]

NoParsed == [none |-> TRUE]

\* INTEL_ITEM_SCHEMA: the required properties and the properties
SchemaRequired ==
    {"headline", "published_at", "source_url", "source_type", "facts", "tags",
     "risk_flags", "critical_risk", "evidence_refs", "data_gaps"}

SchemaProperties == SchemaRequired \cup {"summary"}

\* output_schema_hint of the user payload (lines 76-85), which is also the
\* required_fields list of the repair request (lines 327-336)
HintedFields ==
    {"headline", "summary", "facts", "tags", "risk_flags", "critical_risk",
     "evidence_refs", "data_gaps"}

\* the well-typed fields of the object a message content parses to
FieldsOf(content) ==
    CASE content = "content_valid" -> SchemaProperties
      [] content = "content_hinted" -> HintedFields
      [] OTHER -> {"headline", "facts"}

\* a schema whose required properties are those the prompt asks for
ValidateHintedFields(fields) ==
    /\ HintedFields \ {"summary"} \subseteq fields
    /\ fields \subseteq SchemaProperties

\* validate_intel_payload: every required property, no additional one
validate_intel_payload(fields) ==
    /\ SchemaRequired \subseteq fields
    /\ fields \subseteq SchemaProperties

_parse_and_validate(content) ==
    CASE content = "content_not_json" -> [parsed |-> NoParsed, error |-> "json_parse_error"]
      [] content = "content_not_object" ->
            [parsed |-> NoParsed, error |-> "intel llm content not object"]
      [] ~validate_intel_payload(FieldsOf(content)) ->
            [parsed |-> NoParsed, error |-> "validation error"]
      [] OTHER -> [parsed |-> ModelRecord, error |-> ""]

\* a retry loop that repeats the call once more
ShouldRetryOnceMore(attempt, retries) == attempt <= retries + 1

\* retry_with_backoff: after the attempt-th failure the call is repeated
ShouldRetry(attempt, retries) == attempt <= retries

NoResult == [none |-> TRUE]

\* the published_at texts of PublishedAts that are written in one of the
\* formats of parse_published_at (%Y-%m-%d, %Y-%m-%dT%H:%M:%S, the same with
\* %z); d2 is a date and a time separated by a blank, which none matches
ParseableDates == {"d1"}

\* Python's None as the value of a datetime column
NoDatetime == [parsed |-> FALSE, val |-> ""]

\* schema.parse_published_at: None for None, for an empty text and for a
\* text that no format matches
parse_published_at(value) ==
    IF value.form = "none" \/ value.val = "" THEN NoDatetime
    ELSE IF value.val \in ParseableDates THEN [parsed |-> TRUE, val |-> value.val]
    ELSE NoDatetime

\* the three source columns of the IntelItem built from the payload
IntelItemOf(payload) ==
    [published_at |-> parse_published_at(payload.published_at),
     source_url |-> payload.source_url,
     source_type |-> payload.source_type]

NoItem == [none |-> TRUE]

IdleLlm ==
    [pc |-> "idle", source_payload |-> <<>>, attempt |-> 0, requests |-> 0,
     repair_requests |-> 0, repair_validations |-> 0, used_mcp_response |-> FALSE,
     validation_err |-> "", result |-> NoResult, raised |-> FALSE,
     last_response |-> "none", item |-> NoItem]

\* the invocation at its first request
StartLlm(source_payload, use_mcp_path) ==
    [IdleLlm EXCEPT !.pc = IF use_mcp_path THEN "mcp" ELSE "chat",
                    !.source_payload = source_payload]

Return(l, result) == [l EXCEPT !.pc = "returned", !.result = result]

\* an exception that reaches no handler of the client
Propagate(l, reason) == [l EXCEPT !.pc = "returned", !.raised = TRUE]

\* the except branch of summarize_symbol_intel, lines 203-205
OuterExcept(l, reason) == Return(l, _fallback(l.source_payload, reason))

\* lines 181-202: the response of the first call
AfterResponse(l, resp, via_mcp) ==
    IF ExtractRaises(resp) THEN OuterExcept(l, "llm choices missing")
    ELSE LET v == _parse_and_validate(resp)
         IN  IF v.parsed = NoParsed
             THEN [l EXCEPT !.pc = "repair", !.attempt = 0,
                            !.used_mcp_response = via_mcp,
                            !.validation_err = v.error]
             ELSE Return([l EXCEPT !.used_mcp_response = via_mcp],
                         _merge_source_fields(v.parsed, l.source_payload))

\* lines 150-169: the MCP call with its retries; when they are used up the
\* chat endpoint is asked
McpRequest ==
    /\ llm.pc = "mcp"
    /\ \E resp \in Responses :
         LET l == [llm EXCEPT !.requests = @ + 1, !.last_response = resp]
         IN  llm' = IF RequestRaises(resp)
                    THEN IF ShouldRetry(l.attempt + 1, LlmRetries)
                         THEN [l EXCEPT !.attempt = @ + 1]
                         ELSE [l EXCEPT !.pc = "chat", !.attempt = 0]
                    ELSE AfterResponse(l, resp, TRUE)
    /\ UNCHANGED <<pipelineVars, sweep, sched, search, ranker>>

\* lines 171-179: the chat call with its retries
ChatRequest ==
    /\ llm.pc = "chat"
    /\ \E resp \in Responses :
         LET l == [llm EXCEPT !.requests = @ + 1, !.last_response = resp]
         IN  llm' = IF RequestRaises(resp)
                    THEN IF ShouldRetry(l.attempt + 1, LlmRetries)
                         THEN [l EXCEPT !.attempt = @ + 1]
                         ELSE OuterExcept(l, ErrorText(resp))
                    ELSE AfterResponse(l, resp, FALSE)
    /\ UNCHANGED <<pipelineVars, sweep, sched, search, ranker>>

\* _attempt_repair, lines 356-384, and lines 194-196 of its caller: None
\* (and with it the fallback) when the call fails or its output is invalid
RepairRequest ==
    /\ llm.pc = "repair"
    /\ \E resp \in Responses :
         LET l == [llm EXCEPT !.requests = @ + 1, !.repair_requests = @ + 1,
                              !.last_response = resp]
             none == Return(l, _fallback(l.source_payload, l.validation_err))
         IN  llm' = IF RequestRaises(resp)
                    THEN IF ShouldRetry(l.attempt + 1, RepairRetries)
                         THEN [l EXCEPT !.attempt = @ + 1]
                         ELSE none
                    ELSE IF ExtractRaises(resp) THEN none
                    ELSE LET v == _parse_and_validate(resp)
                             checked == [l EXCEPT !.repair_validations = @ + 1]
                         IN  IF v.parsed = NoParsed
                             THEN Return(checked, _fallback(l.source_payload,
                                                            l.validation_err))
                             ELSE Return(checked, _merge_source_fields(v.parsed,
                                                                      l.source_payload))
    /\ UNCHANGED <<pipelineVars, sweep, sched, search, ranker>>

\* lines 1055-1070 of the orchestrator: the record built from the returned
\* payload is added to the session and flushed
PersistItem ==
    /\ llm.pc = "returned"
    /\ ~llm.raised
    /\ llm.result # NoResult
    /\ llm.item = NoItem
    /\ llm' = [llm EXCEPT !.item = IntelItemOf(llm.result.payload)]
    /\ UNCHANGED <<pipelineVars, sweep, sched, search, ranker>>

(***************************************************************************)
(* FundIntelOrchestrator.run_intel_auto_recover                            *)
(***************************************************************************)
\* business days in the lookback window of one sweep, oldest first
LookbackDays == 2

BudgetRow(done_count, morning_done, close_done) ==
    [done_count |-> done_count, morning_done |-> morning_done, close_done |-> close_done]

\* the counts of one session's queue rows by status (the grouped select)
StatusCounts(done, skipped, pending, failed) ==
    [st \in Statuses |->
        CASE st = "done" -> done [] st = "skipped" -> skipped
          [] st = "pending" -> pending [] OTHER -> failed]

NoQueueRows == StatusCounts(0, 0, 0, 0)

QueueStats(morning, close) ==
    [sn \in Sessions |-> IF sn = "morning" THEN morning ELSE close]

\* what the sweep reads for one day: the budget row and the queue statistics
DayRows ==
    {[budget |-> NoRow, queue_by_session |-> QueueStats(NoQueueRows, NoQueueRows)],
     [budget |-> BudgetRow(0, 0, 0),
      queue_by_session |-> QueueStats(NoQueueRows, NoQueueRows)],
     [budget |-> BudgetRow(0, 0, 0),
      queue_by_session |-> QueueStats(NoQueueRows, StatusCounts(0, 1, 0, 0))],
     [budget |-> BudgetRow(1, 0, 1),
      queue_by_session |-> QueueStats(NoQueueRows, StatusCounts(1, 0, 0, 0))],
     [budget |-> BudgetRow(2, 1, 1),
      queue_by_session |-> QueueStats(StatusCounts(1, 0, 0, 0), StatusCounts(1, 1, 0, 0))],
     [budget |-> BudgetRow(1, 0, 1),
      queue_by_session |-> QueueStats(NoQueueRows, StatusCounts(1, 0, 1, 0))],
     [budget |-> BudgetRow(1, 0, 1),
      queue_by_session |-> QueueStats(NoQueueRows, StatusCounts(1, 0, 0, 1))],
     [budget |-> BudgetRow(0, 0, 0),
      queue_by_session |-> QueueStats(NoQueueRows, StatusCounts(1, 0, 0, 0))],
     [budget |-> BudgetRow(1, 1, 1),
      queue_by_session |-> QueueStats(StatusCounts(1, 0, 0, 0), StatusCounts(1, 0, 0, 0))]}

\* what edinet.fetch_documents_list answers for one day: it raises, or rows
ProbeResults ==
    {[raises |-> TRUE, docs |-> {}],
     [raises |-> FALSE, docs |-> Docs],
     [raises |-> FALSE, docs |-> Docs \cup {Doc("S100BBBB", "upper")}]}

\* the intel_items rows: the URL of the filing as it is written, and the type
ItemRow(token, written, source_type) ==
    [source_url |-> [token |-> token, written |-> written], source_type |-> source_type]

ItemRowSets ==
    {{ItemRow("S100AAAA", "lower", "edinet")},
     {ItemRow("S100AAAA", "upper", "unknown"), ItemRow("", "no_document_path", "edinet")}}

\* the identifier after /documents/ in upper case, None without such a part
_edinet_doc_id_from_url(source_url) ==
    IF source_url.written = "no_document_path" \/ source_url.token = "" THEN NoDocId
    ELSE source_url.token

\* lines 612-619
ProcessedDocIds(item_rows) ==
    {_edinet_doc_id_from_url(row.source_url) :
        row \in {r \in item_rows : r.source_type = "edinet"}} \ {NoDocId}

\* mode_map, lines 546-550
SessionsOfMode(mode) ==
    IF mode = "morning_close" THEN <<"morning", "close">> ELSE <<"close">>

TotalRows(status_counts) ==
    status_counts["done"] + status_counts["skipped"] + status_counts["pending"]
        + status_counts["failed"]

RECURSIVE RequiredDoneTotal(_, _)
RequiredDoneTotal(sessions, queue_by_session) ==
    IF sessions = <<>> THEN 0
    ELSE queue_by_session[Head(sessions)]["done"]
            + RequiredDoneTotal(Tail(sessions), queue_by_session)

\* lines 1127-1154
_is_intel_recovery_day_complete(sessions, budget_row, queue_by_session) ==
    /\ budget_row # NoRow
    /\ \A i \in 1..Len(sessions) :
          LET status_counts == queue_by_session[sessions[i]]
              budget_done == IF sessions[i] = "morning" THEN budget_row.morning_done
                             ELSE budget_row.close_done
          IN  /\ TotalRows(status_counts) > 0
              /\ status_counts["pending"] = 0
              /\ status_counts["failed"] = 0
              /\ budget_done >= status_counts["done"]
    /\ budget_row.done_count >= RequiredDoneTotal(sessions, queue_by_session)

RECURSIVE SortedSeq(_)
SortedSeq(set) ==
    IF set = {} THEN <<>>
    ELSE LET first == CHOOSE x \in set : \A y \in set : x <= y
         IN  <<first>> \o SortedSeq(set \ {first})

\* a slice that keeps the latest days
LatestDays(missing_dates, max_days_per_run) ==
    IF max_days_per_run <= 0 \/ max_days_per_run >= Len(missing_dates) THEN missing_dates
    ELSE SubSeq(missing_dates, Len(missing_dates) - max_days_per_run + 1,
                Len(missing_dates))

\* lines 652-655: missing_dates, or its first max_days_per_run days
TargetsOf(missing_dates, max_days_per_run) ==
    IF max_days_per_run <= 0 \/ max_days_per_run >= Len(missing_dates) THEN missing_dates
    ELSE SubSeq(missing_dates, 1, max_days_per_run)

IdleSweep ==
    [pc |-> "idle", entry |-> "enabled", mode |-> "close_only", max_days_per_run |-> 0,
     days |-> <<>>, item_rows |-> {}, done_dates |-> {}, missing_dates |-> <<>>,
     edinet_gap_days |-> <<>>, targets |-> <<>>, calls |-> <<>>, day_ok |-> TRUE,
     repaired_days |-> 0, status |-> "none"]

DayInputs == [row : DayRows, probe : ProbeResults]

\* the sweeps of one report date: the recovery settings and what is read
StartSweeps ==
    {[IdleSweep EXCEPT !.pc = "start", !.mode = mode,
                       !.max_days_per_run = max_days_per_run, !.days = days,
                       !.item_rows = item_rows] :
        mode \in {"close_only", "morning_close"}, max_days_per_run \in {0, 1, 2},
        days \in [1..LookbackDays -> DayInputs], item_rows \in ItemRowSets}
    \cup {[IdleSweep EXCEPT !.pc = "start", !.entry = entry] :
             entry \in {"disabled", "holiday_skip", "no_target", "no_business_days",
                        "locked"}}

SweepReturn(sw, status) == [sw EXCEPT !.pc = "returned", !.status = status]

\* lines 514-554 and 555-619: the early returns and the classification of
\* every day of the window
ScanDays ==
    /\ sweep.pc = "start"
    /\ sweep' =
          IF sweep.entry # "enabled" THEN SweepReturn(sweep, sweep.entry)
          ELSE [sweep EXCEPT
                  !.pc = "probe",
                  !.done_dates =
                      {d \in 1..Len(sweep.days) :
                          _is_intel_recovery_day_complete(
                              SessionsOfMode(sweep.mode), sweep.days[d].row.budget,
                              sweep.days[d].row.queue_by_session)}]
    /\ UNCHANGED <<pipelineVars, llm, sched, search, ranker>>

\* lines 621-655: the listing of every complete day is probed; the targets
ProbeListings ==
    /\ sweep.pc = "probe"
    /\ LET all_days == 1..Len(sweep.days)
           processed_doc_ids == ProcessedDocIds(sweep.item_rows)
           gap_days == {d \in sweep.done_dates :
                          /\ ~sweep.days[d].probe.raises
                          /\ _seed_doc_ids(sweep.days[d].probe.docs) \ processed_doc_ids
                                # {}}
           missing_dates == SortedSeq((all_days \ sweep.done_dates) \cup gap_days)
           scanned == [sweep EXCEPT !.missing_dates = missing_dates,
                                    !.edinet_gap_days = SortedSeq(gap_days)]
       IN  sweep' =
              IF missing_dates = <<>> THEN SweepReturn(scanned, "no_gap")
              ELSE [scanned EXCEPT
                      !.pc = "invoke",
                      !.targets = TargetsOf(missing_dates, sweep.max_days_per_run)]
    /\ UNCHANGED <<pipelineVars, llm, sched, search, ranker>>

\* lines 665-676: the next call of run_intel_only, whose result is its status
\* 'ok' or 'locked', or an exception that ends the sweep
InvokeRun ==
    /\ sweep.pc = "invoke"
    /\ LET sessions == SessionsOfMode(sweep.mode)
           n == Len(sweep.calls)
           d == sweep.targets[(n \div Len(sessions)) + 1]
           session_name == sessions[(n % Len(sessions)) + 1]
           last_of_day == (n % Len(sessions)) + 1 = Len(sessions)
           first_of_day == n % Len(sessions) = 0
           called == [sweep EXCEPT !.calls = Append(@, <<d, session_name>>)]
       IN  \E result \in {"ok", "locked", "raises"} :
              LET day_ok == (first_of_day \/ sweep.day_ok) /\ result = "ok"
                  counted == [called EXCEPT
                                !.day_ok = day_ok,
                                !.repaired_days = IF last_of_day /\ day_ok THEN @ + 1
                                                  ELSE @]
              IN  sweep' =
                     IF result = "raises" THEN SweepReturn(called, "raised")
                     ELSE IF Len(counted.calls) = Len(sweep.targets) * Len(sessions)
                     THEN SweepReturn(counted, "ok")
                     ELSE counted
    /\ UNCHANGED <<pipelineVars, llm, sched, search, ranker>>

(***************************************************************************)
(* main.py: the scheduler process                                          *)
(***************************************************************************)
\* timer fires of one scheduler process
MaxFires == 4

\* ids of jobs added to the scheduler (lines 331-399); every job function
\* wraps its body in _run_serialized, and max_instances = 1 keeps one
\* instance per id
JobIds == {"morning_job", "close_job", "fund_daily_job", "intel_background_job",
           "auto_recover_job", "startup_catchup_job"}

\* _SCHEDULER_MUTEX (line 20) and the position of every job's thread;
\* _STARTUP_CATCHUP_PHASE (line 22), the run_on_startup flag of the fund
\* recovery, and what the intel background job did: whether it returned
\* without a run, and the phase in which it called the pipeline
IdleSched ==
    [mutex |-> FALSE, pc |-> [j \in JobIds |-> "idle"],
     outcome |-> [j \in JobIds |-> "none"], fires |-> 0, skipped |-> 0, raised |-> 0,
     startup_catchup_phase |-> "done", fund_on_startup |-> TRUE,
     background_skipped |-> FALSE, background_ran_in |-> "none"]

\* a finally clause that runs only when fn() returns
ReleaseOnReturnOnly(s, j) ==
    [s EXCEPT !.mutex = (s.outcome[j] = "raised"), !.pc[j] = "idle"]

\* lines 67-68: finally, _SCHEDULER_MUTEX.release()
Finally(s, j) ==
    [s EXCEPT !.mutex = FALSE, !.pc[j] = "idle"]

\* the trigger of job j fires and a pool thread calls its job function
Fire(j) ==
    /\ sched.pc[j] = "idle"
    /\ sched.fires < MaxFires
    /\ sched' = [sched EXCEPT !.pc[j] = "called", !.fires = @ + 1, !.outcome[j] = "none"]
    /\ UNCHANGED <<pipelineVars, llm, sweep, search, ranker>>

\* lines 62-64: the non-blocking acquire; a taken mutex is logged and the
\* call returns
Acquire(j) ==
    /\ sched.pc[j] = "called"
    /\ sched' =
          IF sched.mutex THEN [sched EXCEPT !.pc[j] = "idle", !.skipped = @ + 1]
          ELSE [sched EXCEPT !.mutex = TRUE, !.pc[j] = "body"]
    /\ UNCHANGED <<pipelineVars, llm, sweep, search, ranker>>

\* lines 65-66: fn() returns
BodyReturn(j) ==
    /\ sched.pc[j] = "body"
    /\ sched' = [sched EXCEPT !.pc[j] = "finally", !.outcome[j] = "returned"]
    /\ UNCHANGED <<pipelineVars, llm, sweep, search, ranker>>

\* lines 65-66: fn() raises
BodyRaise(j) ==
    /\ sched.pc[j] = "body"
    /\ sched' = [sched EXCEPT !.pc[j] = "finally", !.outcome[j] = "raised",
                              !.raised = @ + 1]
    /\ UNCHANGED <<pipelineVars, llm, sweep, search, ranker>>

Release(j) ==
    /\ sched.pc[j] = "finally"
    /\ sched' = Finally(sched, j)
    /\ UNCHANGED <<pipelineVars, llm, sweep, search, ranker>>

(***************************************************************************)
(* intel/search.py: DefaultIntelSearchBackend.fetch for one filing, the    *)
(* company page and the MCP backend, as CompositeIntelSearchBackend.fetch  *)
(* runs them                                                               *)
(***************************************************************************)
\* edinet_file_types as the constructor leaves it (lines 310-313): the
\* configured positive types in their order, [5, 1, 2] by default
FileTypeLists == {<<5, 1, 2>>, <<1, 5>>, <<2, 5>>, <<5>>}

FileTypes == {1, 2, 5}

\* what download_document gives for one file type: it raises, it returns no
\* byte, or it returns a payload that begins with PK, with %PDF- or with
\* something else.  The content of a ZIP: nothing readable, a text, key
\* facts, both, or an XBRL value that Decimal reads as Infinity
Download(result, magic, content) ==
    [result |-> result, magic |-> magic, content |-> content]

Downloads ==
    {Download("raises", "none", "nothing"), Download("empty", "none", "nothing"),
     Download("payload", "PDF", "nothing"), Download("payload", "other", "nothing"),
     Download("payload", "other", "text")}
    \cup {Download("payload", "PK", content) :
             content \in {"nothing", "text", "facts", "text_and_facts",
                          "value_not_finite"}}

\* lines 98-106
_is_expected_edinet_payload(payload, file_type) ==
    IF payload.result = "empty" THEN FALSE
    ELSE IF file_type = 2 THEN payload.magic = "PDF"
    ELSE IF file_type \in {1, 3, 4, 5} THEN payload.magic = "PK"
    ELSE TRUE

\* _has_substantive_snippet of the text extracted from the payload: the
\* text of a PDF begins with %PDF-, a payload without readable entry gives
\* nothing or the headline
SnippetOk(payload) ==
    payload.magic # "PDF" /\ payload.content \in {"text", "text_and_facts"}

\* extract_xbrl_key_facts raises out of _format_decimal (edinet_xbrl.py
\* lines 125-127 and 207): int() of an infinite Decimal
XbrlRaises(payload) == payload.content = "value_not_finite"

\* bool(extract_xbrl_key_facts(payload))
XbrlOk(payload) == payload.content \in {"facts", "text_and_facts"}

\* a URL that always names the first configured type
PrimaryUrl(doc_id, used_file_type, primary_file_type) ==
    [doc_id |-> doc_id, type |-> primary_file_type]

\* line 410: final_url names used_file_type
FinalUrl(doc_id, used_file_type, primary_file_type) ==
    [doc_id |-> doc_id, type |-> used_file_type]

\* the URL of a page or of an MCP row, which names no file type
PageUrl(name) == [doc_id |-> name, type |-> 0]

\* the text and the facts of the headline: what the item carries when no
\* variant was extracted
Metadata == 0

IdleSearch ==
    [pc |-> "idle", file_types |-> <<>>, downloads |-> <<>>, has_doc_id |-> TRUE,
     idx |-> 1, tried |-> <<>>, used_file_type |-> 0, extracted |-> FALSE,
     text_of |-> Metadata, facts_of |-> Metadata, items |-> <<>>, raised |-> FALSE]

\* fetch for a seed with one filing: the configured types and what each
\* type's download gives
StartSearches ==
    {[IdleSearch EXCEPT !.pc = "variants", !.file_types = file_types,
                        !.downloads = downloads, !.has_doc_id = has_doc_id,
                        !.used_file_type = file_types[1]] :
        file_types \in FileTypeLists, downloads \in [FileTypes -> Downloads],
        has_doc_id \in BOOLEAN}

\* lines 338-397: one pass of the loop over edinet_file_types.  A filing
\* without docID is left out (lines 320-322); after the last type the item
\* is built
TryVariant ==
    /\ search.pc = "variants"
    /\ search' =
          IF ~search.has_doc_id THEN [search EXCEPT !.pc = "ir"]
          ELSE IF search.idx > Len(search.file_types) THEN [search EXCEPT !.pc = "append"]
          ELSE LET file_type == search.file_types[search.idx]
                   payload == search.downloads[file_type]
                   next == [search EXCEPT !.idx = @ + 1, !.tried = Append(@, file_type)]
               IN  IF payload.result \in {"raises", "empty"} THEN next
                   ELSE IF ~_is_expected_edinet_payload(payload, file_type) THEN next
                   ELSE IF XbrlRaises(payload)
                   THEN [next EXCEPT !.pc = "returned", !.raised = TRUE]
                   ELSE IF ~SnippetOk(payload) /\ ~XbrlOk(payload) THEN next
                   ELSE [next EXCEPT !.pc = "append", !.used_file_type = file_type,
                                     !.extracted = TRUE, !.text_of = file_type,
                                     !.facts_of = IF XbrlOk(payload) THEN file_type
                                                  ELSE Metadata]
    /\ UNCHANGED <<pipelineVars, llm, sweep, sched, ranker>>

\* lines 399-423: the evidence item of the filing
AppendItem ==
    /\ search.pc = "append"
    /\ search' =
          [search EXCEPT
             !.pc = "ir",
             !.items = Append(@, [source_url |-> FinalUrl("doc", search.used_file_type,
                                                           search.file_types[1]),
                                  source_type |-> "edinet",
                                  text_of |-> search.text_of,
                                  facts_of |-> search.facts_of])]
    /\ UNCHANGED <<pipelineVars, llm, sweep, sched, ranker>>

\* lines 427-452: the company page, whose request is inside a try
FetchIrPage ==
    /\ search.pc = "ir"
    /\ \E response \in {"no_url", "raises", "status_404", "page"} :
          search' =
             [search EXCEPT
                !.pc = "mcp",
                !.items = IF response = "page"
                          THEN Append(@, [source_url |-> PageUrl("ir_url"),
                                          source_type |-> "company_ir",
                                          text_of |-> "page", facts_of |-> Metadata])
                          ELSE @]
    /\ UNCHANGED <<pipelineVars, llm, sweep, sched, ranker>>

\* McpIntelSearchBackend.fetch (lines 467-499) inside the loop of
\* CompositeIntelSearchBackend.fetch (lines 506-516): an item whose
\* (source_url, source_type) was seen is left out
FetchMcp ==
    /\ search.pc = "mcp"
    /\ \E response \in {"disabled", "raises", "not_a_list", "row_without_url",
                          "row", "row_of_ir_url"} :
          LET row == IF response = "row"
                     THEN <<[source_url |-> PageUrl("mcp_url"), source_type |-> "mcp",
                             text_of |-> "row", facts_of |-> Metadata]>>
                     ELSE IF response = "row_of_ir_url"
                     THEN <<[source_url |-> PageUrl("ir_url"), source_type |-> "company_ir",
                             text_of |-> "row", facts_of |-> Metadata]>>
                     ELSE <<>>
              seen == {<<search.items[i].source_url, search.items[i].source_type>> :
                          i \in 1..Len(search.items)}
              kept == SelectSeq(row, LAMBDA item :
                                        <<item.source_url, item.source_type>> \notin seen)
          IN  search' = [search EXCEPT !.pc = "returned", !.items = @ \o kept]
    /\ UNCHANGED <<pipelineVars, llm, sweep, sched, ranker>>

(***************************************************************************)
(* intel/priority.py: rank_priorities on a list                            *)
(***************************************************************************)
\* candidates handed to one call
MaxRanked == 2

\* candidates whose codes have the same characters in another order
\* (1332, 1323) or differ in one character (1333), with equal or different
\* signals
PriorityInputs ==
    [code : {<<1, 3, 3, 2>>, <<1, 3, 2, 3>>, <<1, 3, 3, 3>>},
     fund_state : {"IN", "WATCH"}, fund_score : {50}, has_new_edinet : BOOLEAN,
     theme_strength : {20}, theme_strength_delta : {0}, has_high_signal_tag : {FALSE}]

PriorityLists == UNION {[1..n -> PriorityInputs] : n \in 1..MaxRanked}

\* the signals of a candidate: everything but its code
Signals(item) ==
    <<item.fund_state, item.fund_score, item.has_new_edinet, item.theme_strength,
      item.theme_strength_delta, item.has_high_signal_tag>>

\* line 38: the row of a candidate
RowOf(item) == [code |-> item.code, priority |-> calculate_priority(item)]

\* a row put into a sorted list behind every row that it does not precede
RECURSIVE InsertRow(_, _)
InsertRow(sorted, row) ==
    IF sorted = <<>> THEN <<row>>
    ELSE IF RankBefore(row, Head(sorted)) THEN <<row>> \o sorted
    ELSE <<Head(sorted)>> \o InsertRow(Tail(sorted), row)

\* list.sort(key=...) is stable: rows of equal key keep their order
RECURSIVE SortStable(_)
SortStable(rows) ==
    IF rows = <<>> THEN <<>>
    ELSE InsertRow(SortStable(SubSeq(rows, 1, Len(rows) - 1)), rows[Len(rows)])

\* lines 37-40
RankList(inputs) == SortStable([i \in 1..Len(inputs) |-> RowOf(inputs[i])])

\* the lists with the elements of a list in another order
Reorderings(inputs) ==
    {[i \in 1..Len(inputs) |-> inputs[f[i]]] :
        f \in {g \in [1..Len(inputs) -> 1..Len(inputs)] :
                  \A i, j \in 1..Len(inputs) : i # j => g[i] # g[j]}}

IdleRanker == [pc |-> "idle", items |-> <<>>, rows |-> <<>>, reordered |-> <<>>,
               again |-> <<>>]

StartRankers == {[IdleRanker EXCEPT !.pc = "start", !.items = inputs] :
                    inputs \in PriorityLists}

\* a call of rank_priorities
Rank ==
    /\ ranker.pc = "start"
    /\ ranker' = [ranker EXCEPT !.pc = "ranked", !.rows = RankList(ranker.items)]
    /\ UNCHANGED <<pipelineVars, llm, sweep, sched, search>>

\* a later call with the same candidates in some order
RankReordered ==
    /\ ranker.pc = "ranked"
    /\ \E reordered \in Reorderings(ranker.items) :
          ranker' = [ranker EXCEPT !.pc = "ranked_again", !.reordered = reordered,
                                   !.again = RankList(reordered)]
    /\ UNCHANGED <<pipelineVars, llm, sweep, sched, search>>

(***************************************************************************)
(* Specification                                                           *)
(***************************************************************************)
\* the service starts on an empty queue; the day's budget row is absent or
\* was left with zero counters by an earlier run that had nothing to process
Init ==
    /\ cfg \in Configs
    /\ queue = [k \in Keys |-> <<>>]
    /\ budget \in [BusinessDates -> {NoRow, ZeroBudget}]
    /\ items = [d \in BusinessDates |-> 0]
    /\ advisoryLocks = {}
    /\ runs = [p \in Procs |-> IdleRun]
    /\ started = 0
    /\ lastStep = Step("none", 0, {})
    /\ llm = IdleLlm
    /\ sweep = IdleSweep
    /\ sched = IdleSched
    /\ search = IdleSearch
    /\ ranker = IdleRanker

\* the same, with every candidate processed (the recovery configuration)
InitCatchUp ==
    /\ cfg = CatchUpConfig
    /\ queue = [k \in Keys |-> <<>>]
    /\ budget \in [BusinessDates -> {NoRow, ZeroBudget}]
    /\ items = [d \in BusinessDates |-> 0]
    /\ advisoryLocks = {}
    /\ runs = [p \in Procs |-> IdleRun]
    /\ started = 0
    /\ lastStep = Step("none", 0, {})
    /\ llm = IdleLlm
    /\ sweep = IdleSweep
    /\ sched = IdleSched
    /\ search = IdleSearch
    /\ ranker = IdleRanker

\* the service on PostgreSQL with the shipped settings
InitEnqueue ==
    /\ cfg = DefaultConfig
    /\ queue = [k \in Keys |-> <<>>]
    /\ budget = [d \in BusinessDates |-> NoRow]
    /\ items = [d \in BusinessDates |-> 0]
    /\ advisoryLocks = {}
    /\ runs = [p \in Procs |-> IdleRun]
    /\ started = 0
    /\ lastStep = Step("none", 0, {})
    /\ llm = IdleLlm
    /\ sweep = IdleSweep
    /\ sched = IdleSched
    /\ search = IdleSearch
    /\ ranker = IdleRanker

\* one invocation of the client, for any evidence and either path
InitChain ==
    /\ cfg = DefaultConfig
    /\ queue = [k \in Keys |-> <<>>]
    /\ budget = [d \in BusinessDates |-> NoRow]
    /\ items = [d \in BusinessDates |-> 0]
    /\ advisoryLocks = {}
    /\ runs = [p \in Procs |-> IdleRun]
    /\ started = 0
    /\ lastStep = Step("none", 0, {})
    /\ \E source_payload \in EvidenceLists, use_mcp_path \in BOOLEAN :
          llm = StartLlm(source_payload, use_mcp_path)
    /\ sweep = IdleSweep
    /\ sched = IdleSched
    /\ search = IdleSearch
    /\ ranker = IdleRanker

\* one sweep, for any settings and any state of the lookback days
InitRecover ==
    /\ cfg = DefaultConfig
    /\ queue = [k \in Keys |-> <<>>]
    /\ budget = [d \in BusinessDates |-> NoRow]
    /\ items = [d \in BusinessDates |-> 0]
    /\ advisoryLocks = {}
    /\ runs = [p \in Procs |-> IdleRun]
    /\ started = 0
    /\ lastStep = Step("none", 0, {})
    /\ llm = IdleLlm
    /\ sweep \in StartSweeps
    /\ sched = IdleSched
    /\ search = IdleSearch
    /\ ranker = IdleRanker

\* one invocation of the chain for evidence whose text and facts vary
InitFallback ==
    /\ cfg = DefaultConfig
    /\ queue = [k \in Keys |-> <<>>]
    /\ budget = [d \in BusinessDates |-> NoRow]
    /\ items = [d \in BusinessDates |-> 0]
    /\ advisoryLocks = {}
    /\ runs = [p \in Procs |-> IdleRun]
    /\ started = 0
    /\ lastStep = Step("none", 0, {})
    /\ \E source_payload \in TextEvidenceLists, use_mcp_path \in BOOLEAN :
          llm = StartLlm(source_payload, use_mcp_path)
    /\ sweep = IdleSweep
    /\ sched = IdleSched
    /\ search = IdleSearch
    /\ ranker = IdleRanker

\* one fetch, for any configured types and any downloads
InitFetch ==
    /\ cfg = DefaultConfig
    /\ queue = [k \in Keys |-> <<>>]
    /\ budget = [d \in BusinessDates |-> NoRow]
    /\ items = [d \in BusinessDates |-> 0]
    /\ advisoryLocks = {}
    /\ runs = [p \in Procs |-> IdleRun]
    /\ started = 0
    /\ lastStep = Step("none", 0, {})
    /\ llm = IdleLlm
    /\ sweep = IdleSweep
    /\ sched = IdleSched
    /\ search \in StartSearches
    /\ ranker = IdleRanker

NextFetch == TryVariant \/ AppendItem \/ FetchIrPage \/ FetchMcp

\* one ranking, for any list of candidates
InitRank ==
    /\ cfg = DefaultConfig
    /\ queue = [k \in Keys |-> <<>>]
    /\ budget = [d \in BusinessDates |-> NoRow]
    /\ items = [d \in BusinessDates |-> 0]
    /\ advisoryLocks = {}
    /\ runs = [p \in Procs |-> IdleRun]
    /\ started = 0
    /\ lastStep = Step("none", 0, {})
    /\ llm = IdleLlm
    /\ sweep = IdleSweep
    /\ sched = IdleSched
    /\ search = IdleSearch
    /\ ranker \in StartRankers

NextRank == Rank \/ RankReordered

NextRecover == ScanDays \/ ProbeListings \/ InvokeRun

\* the scheduler process after scheduler.start()
InitScheduler ==
    /\ cfg = DefaultConfig
    /\ queue = [k \in Keys |-> <<>>]
    /\ budget = [d \in BusinessDates |-> NoRow]
    /\ items = [d \in BusinessDates |-> 0]
    /\ advisoryLocks = {}
    /\ runs = [p \in Procs |-> IdleRun]
    /\ started = 0
    /\ lastStep = Step("none", 0, {})
    /\ llm = IdleLlm
    /\ sweep = IdleSweep
    /\ sched = IdleSched
    /\ search = IdleSearch
    /\ ranker = IdleRanker

NextScheduler ==
    \E j \in JobIds :
        Fire(j) \/ Acquire(j) \/ BodyReturn(j) \/ BodyRaise(j) \/ Release(j)

NextChain == McpRequest \/ ChatRequest \/ RepairRequest \/ PersistItem

Next ==
    \/ \E p \in Procs : run(p)
    \/ \E p \in Procs : run_intel_only(p)
    \/ \E p \in Procs : ProcessEntry(p)
    \/ \E p \in Procs : PauseBreak(p)
    \/ \E p \in Procs : Commit(p)
    \/ \E p \in Procs : Abort(p)

\* runs one after the other
NextEnqueue ==
    \/ \E p \in Procs : run_after_refiling(p)
    \/ \E p \in Procs : ProcessEntry(p)
    \/ \E p \in Procs : PauseBreak(p)
    \/ \E p \in Procs : Commit(p)
    \/ \E p \in Procs : Abort(p)

Spec == Init /\ [][Next]_vars

SpecEnqueue == InitEnqueue /\ [][NextEnqueue]_vars

SpecCatchUp == InitCatchUp /\ [][Next]_vars

SpecChain == InitChain /\ [][NextChain]_vars

SpecFallback == InitFallback /\ [][NextChain]_vars

SpecFetch == InitFetch /\ [][NextFetch]_vars

SpecRank == InitRank /\ [][NextRank]_vars

SpecRecover == InitRecover /\ [][NextRecover]_vars

SpecScheduler == InitScheduler /\ [][NextScheduler]_vars

(***************************************************************************)
(* Properties of the queue and the budget                                  *)
(***************************************************************************)
\* C1: the queue holds at most one entry per idempotency key, in the table
\* and in every session: enqueueing a candidate whose key already exists
\* inserts no second row
C1_OneEntryPerKey ==
    \A k \in Keys :
        /\ Len(queue[k]) <= 1
        /\ \A p \in Procs : Len(runs[p].view[k]) <= 1

\* a run has enqueued again a key whose row exists, with other filing ids
C1_Reenqueued ==
    \E k \in Keys, p \in Procs :
        /\ Len(queue[k]) = 1
        /\ runs[p].pc = "body"
        /\ <<k, "sources_seed">> \in runs[p].dirty

ListedChanges ==
    {<<"pending", "done", "process">>, <<"pending", "skipped", "process">>,
     <<"pending", "failed", "process">>, <<"failed", "pending", "reset">>}

ForceResets == {<<st, "pending", "enqueue">> : st \in Statuses \ {"pending"}}

\* C2 as stated: every status change a run makes is pending->done,
\* pending->skipped, pending->failed or the start-of-run reset
\* failed->pending; a skipped entry never goes back to pending
C2_OnlyListedChanges == lastStep.changes \subseteq ListedChanges

\* C2: every status change a run makes is pending->done, pending->skipped,
\* pending->failed, the start-of-run reset failed->pending, or the reset to
\* pending of a done, skipped or failed entry that is enqueued again with
\* other filing ids; a skipped entry goes back to pending in that way only
C2_ListedOrForceReset == lastStep.changes \subseteq (ListedChanges \cup ForceResets)

\* a skipped entry has been enqueued again and is pending
C2_SkippedForceReset == <<"skipped", "pending", "enqueue">> \in lastStep.changes

\* C3 as stated: for one (business_date, session) pair at most one run
\* executes its body at a time
C3_OneRunPerPair ==
    \A p, q \in Procs :
        (p # q /\ runs[p].pc = "body" /\ runs[q].pc = "body")
            => <<runs[p].date, runs[p].session>> # <<runs[q].date, runs[q].session>>

\* C4 as stated: when something raises while one entry is processed, the
\* entry is failed in the run and the run goes on with the entries that
\* remain
C4_FailureIsContained ==
    [][lastStep'.returned = "caught" =>
         \E p \in Procs :
            /\ runs[p].pc = "body"
            /\ runs[p].loop_rows # <<>>
            /\ runs'[p] # runs[p]
            /\ runs'[p].pc = "body"
            /\ runs'[p].loop_rows = Tail(runs[p].loop_rows)
            /\ Head(runs'[p].view[Head(runs[p].loop_rows)]).status = "failed"]_vars

\* C5 as stated: unless every candidate is processed, done_count never
\* exceeds the daily cap and a session counter never exceeds its cap
C5_WithinCaps ==
    ~cfg.process_all_candidates =>
        \A d \in BusinessDates :
            budget[d] # NoRow =>
                /\ budget[d].done_count <= cfg.daily_budget
                /\ budget[d].morning_done <= cfg.morning_cap
                /\ budget[d].close_done <= cfg.close_cap

\* C6 as stated: done_count = morning_done + close_done in every budget row
C6_DoneCountIsSum ==
    \A d \in BusinessDates :
        budget[d] # NoRow =>
            budget[d].done_count = budget[d].morning_done + budget[d].close_done

\* C7: the budget row changes only by the commit that makes the run's
\* records durable, and its counters never exceed the number of durable
\* records: a run that raises or ends before its commit counts nothing
C7_NoOverCount ==
    /\ [](\A d \in BusinessDates :
            budget[d] # NoRow =>
                /\ budget[d].done_count <= items[d]
                /\ budget[d].morning_done + budget[d].close_done <= items[d])
    /\ [][budget' # budget => lastStep'.returned = "ok"]_vars

\* a run that had counted an entry raised before its commit
C7_RaisedAfterCounting == lastStep.returned = "raised" /\ lastStep.done > 0

FirstItem(source_payload, field) == source_payload[1][field]

\* the cleaned value of the first evidence item whose value is not empty
FirstNonEmpty(source_payload, field, default) ==
    LET filled == {i \in 1..Len(source_payload) :
                      _clean_text(source_payload[i][field]) # EmptyText}
    IN  IF filled = {} THEN default
        ELSE _clean_text(source_payload[CHOOSE i \in filled : \A j \in filled : i <= j][field])

C10_OneRepairRequest ==
    /\ llm.repair_requests <= 1
    /\ llm.repair_validations <= 1

\* C10: there is one repair call, which sends a second request only after
\* the first one raised; its output is validated at most once; when it
\* raises again or its output is invalid the fallback is returned with the
\* first validation error; after the return no request is sent
C10_OneRepairCall ==
    /\ [](/\ llm.repair_requests <= RepairRetries + 1
          /\ llm.repair_requests <= llm.attempt + 1
          /\ llm.repair_validations <= 1
          /\ llm.repair_validations = 1 => llm.pc = "returned"
          /\ (llm.pc = "returned" /\ llm.repair_requests > 0 /\ ~llm.result.valid)
                => llm.result = _fallback(llm.source_payload, llm.validation_err))
    /\ [][llm.pc = "returned" => llm'.requests = llm.requests]_vars

\* the first repair request raised, the second one was sent and the
\* fallback was returned
C10_RepairRequestRepeated ==
    /\ llm.pc = "returned"
    /\ llm.repair_requests = 2
    /\ llm.result # NoResult
    /\ ~llm.result.valid

\* C11 as stated: a request that was answered with a 4xx status other than
\* 429 is not repeated: the call it belongs to ends with that request
C11_ClientErrorNotRetried ==
    [][(llm'.requests = llm.requests + 1 /\ llm'.last_response = "http_404")
          => llm'.pc # llm.pc]_vars

\* C12 as stated: every run that has acquired the lock has reset every failed
\* entry of its date and session when it starts to dequeue
C12_EveryRunResets ==
    [][\A p \in Procs :
          (runs[p].pc = "idle" /\ runs'[p].pc = "body")
             => FailedRows(runs'[p].view, runs'[p].date, runs'[p].session,
                           cfg.process_all_candidates) = {}]_vars

\* C12: a run that has acquired the lock and has a positive allowance (or
\* no limit) has reset every failed entry of its scope to pending when it
\* starts to dequeue, and without a limit it takes every such entry up; a
\* run whose allowance is zero returns with the queue as it found it
C12_ResetUnlessNoAllowance ==
    [][\A p \in Procs :
          (runs[p].pc = "idle" /\ runs'[p].pc = "body") =>
             LET r == runs'[p]
                 failed_before == FailedRows(queue, r.date, r.session,
                                             cfg.process_all_candidates)
             IN  IF r.limited /\ r.max_run <= 0
                 THEN r.view = queue /\ r.loop_rows = <<>> /\ r.dirty = {}
                 ELSE /\ FailedRows(r.view, r.date, r.session,
                                    cfg.process_all_candidates) = {}
                      /\ \A k \in failed_before :
                            /\ Head(r.view[k]).status = "pending"
                            /\ <<k, "status">> \in r.dirty
                            /\ ~r.limited => k \in SeqToSet(r.loop_rows)]_vars

\* a run has reset a failed entry and dequeued it
C12_FailedEntryTakenUpAgain ==
    /\ <<"failed", "pending", "reset">> \in lastStep.changes
    /\ \E p \in Procs, k \in Keys :
          /\ runs[p].pc = "body"
          /\ queue[k] # <<>> /\ Head(queue[k]).status = "failed"
          /\ Head(runs[p].view[k]).status = "pending"
          /\ runs[p].loop_rows # <<>> /\ Head(runs[p].loop_rows) = k

\* C13: enqueueing a candidate whose key exists sets its priority; when the
\* filing ids of the new seed equal those of the stored one the stored seed
\* stays and the enqueue leaves the status (a failed entry is then reset by
\* the reset that follows); when they differ the seed is replaced and the
\* status is pending, whatever it was
C13_ReenqueueFrame ==
    [][\A p \in Procs :
          (runs[p].pc = "idle" /\ runs'[p].pc = "body") =>
             \A e \in lastStep'.enqueued :
                queue[e.key] # <<>> =>
                   LET old == Head(queue[e.key])
                       new == Head(runs'[p].view[e.key])
                   IN  /\ Len(runs'[p].view[e.key]) = 1
                       /\ new.priority = e.priority
                       /\ IF _seed_doc_ids(e.seed_payload) = _seed_doc_ids(old.sources_seed)
                          THEN /\ new.sources_seed = old.sources_seed
                               /\ \/ new.status = old.status
                                  \/ /\ old.status = "failed"
                                     /\ new.status = "pending"
                                     /\ <<"failed", "pending", "reset">>
                                            \in lastStep'.changes
                          ELSE /\ new.sources_seed = e.seed_payload
                               /\ new.status = "pending"]_vars

\* an entry that was done has been enqueued again with other filing ids and
\* is pending in the run
C13_DoneEntryForcedBack ==
    \E p \in Procs, e \in lastStep.enqueued :
        /\ runs[p].pc = "body"
        /\ queue[e.key] # <<>>
        /\ Head(queue[e.key]).status = "done"
        /\ _seed_doc_ids(e.seed_payload) # _seed_doc_ids(Head(queue[e.key]).sources_seed)
        /\ Head(runs[p].view[e.key]).status = "pending"
        /\ Head(runs[p].view[e.key]).sources_seed = e.seed_payload

\* the entries a run has still to process are in priority-descending, then
\* code-ascending order, and no pending entry of its scope that it leaves
\* out ranks before one of them
InDequeueOrder(r) ==
    /\ \A i, j \in 1..Len(r.loop_rows) :
          i < j => /\ r.loop_rows[i] # r.loop_rows[j]
                   /\ ~RankBefore(OrderRow(r.view, r.loop_rows[j]),
                                  OrderRow(r.view, r.loop_rows[i]))
    /\ \A k \in PendingKeys(r.view, r.date, r.session, cfg.process_all_candidates)
                 \ SeqToSet(r.loop_rows) :
          \A i \in 1..Len(r.loop_rows) :
             ~RankBefore(OrderRow(r.view, k), OrderRow(r.view, r.loop_rows[i]))

\* the allowance of the run, from the budget row it read
AllowanceOf(r) == MaxRunOf(r.budget, r.session)

\* a step of the loop takes the first of the remaining entries and no other
OneAtATime ==
    \A p \in Procs :
        (runs[p].pc = "body" /\ runs'[p].pc = "body"
           /\ runs'[p].loop_rows # runs[p].loop_rows /\ runs'[p].loop_rows # <<>>)
          => /\ runs'[p].loop_rows = Tail(runs[p].loop_rows)
             /\ \A k \in Keys \ {Head(runs[p].loop_rows)} :
                   runs'[p].view[k] = runs[p].view[k]

\* C14 as stated: a run processes its entries one at a time in priority
\* order and, unless every candidate is processed, takes up no more
\* entries than the allowance
C14_InOrderWithinAllowance ==
    /\ [](\A p \in Procs :
            runs[p].pc = "body" =>
               /\ InDequeueOrder(runs[p])
               /\ ~cfg.process_all_candidates
                     => Len(runs[p].loop_rows) <= AllowanceOf(runs[p]))
    /\ [][OneAtATime]_vars

\* the same for the runs for which the code computes the allowance
C14_InOrderWithinComputedAllowance ==
    /\ [](\A p \in Procs :
            runs[p].pc = "body" =>
               /\ InDequeueOrder(runs[p])
               /\ runs[p].limited
                     => Len(runs[p].loop_rows) <= AllowanceOf(runs[p]))
    /\ [][OneAtATime]_vars

DoneEntries(d) ==
    {k \in Keys : KeyDate(k) = d /\ queue[k] # <<>> /\ Head(queue[k]).status = "done"}

\* C16: an entry is skipped exactly when the extraction found no evidence,
\* and then the model is not asked and no record is added; an entry is done
\* only when the iteration has added and flushed a record, and the entries
\* committed as done never outnumber the committed records of their date
C16_SkippedAndDoneConditions ==
    /\ [][lastStep'.outcome # "none" =>
            \E p \in Procs :
               /\ runs[p].pc = "body" /\ runs[p].loop_rows # <<>>
               /\ runs'[p] # runs[p]
               /\ LET st == Head(runs'[p].view[Head(runs[p].loop_rows)]).status
                  IN  /\ st = "skipped" <=> lastStep'.outcome = "no_sources"
                      /\ st = "skipped" =>
                            /\ runs'[p].summarized = runs[p].summarized
                            /\ runs'[p].new_items = runs[p].new_items
                            /\ runs'[p].done = runs[p].done
                      /\ st = "done" =>
                            /\ lastStep'.outcome = "persisted"
                            /\ runs'[p].summarized = runs[p].summarized + 1
                            /\ runs'[p].new_items = runs[p].new_items + 1]_vars
    /\ [](\A d \in BusinessDates : Cardinality(DoneEntries(d)) <= items[d])

\* a run has committed one entry as skipped and one as done, with one record
C16_SkippedAndDoneCommitted ==
    /\ lastStep.returned = "ok"
    /\ \E d \in BusinessDates, k \in Keys :
          /\ KeyDate(k) = d /\ queue[k] # <<>> /\ Head(queue[k]).status = "skipped"
          /\ Cardinality(DoneEntries(d)) = 1
          /\ items[d] = 1

(***************************************************************************)
(* Properties of the recovery sweep                                        *)
(***************************************************************************)
\* what the claim asks of one session of a day that counts as complete
SessionFinished(row, session_name) ==
    LET status_counts == row.queue_by_session[session_name]
    IN  /\ TotalRows(status_counts) > 0
        /\ status_counts["pending"] = 0
        /\ status_counts["failed"] = 0
        /\ status_counts["done"] <= (IF session_name = "morning"
                                      THEN row.budget.morning_done
                                      ELSE row.budget.close_done)

\* C17 as stated: a day is classified complete only if every required
\* session has an entry, none pending or failed, and counters that cover the
\* done entries; a day whose budget row has done_count = 0 is never complete
C17_CompleteOnlyIfFinished ==
    \A d \in sweep.done_dates :
        LET row == sweep.days[d].row
            sessions == SessionsOfMode(sweep.mode)
        IN  /\ row.budget # NoRow
            /\ \A i \in 1..Len(sessions) : SessionFinished(row, sessions[i])
            /\ row.budget.done_count >= RequiredDoneTotal(sessions, row.queue_by_session)
            /\ row.budget.done_count > 0

\* the same without the last condition
C17_CompleteOnlyIfConsistent ==
    \A d \in sweep.done_dates :
        LET row == sweep.days[d].row
            sessions == SessionsOfMode(sweep.mode)
        IN  /\ row.budget # NoRow
            /\ \A i \in 1..Len(sessions) : SessionFinished(row, sessions[i])
            /\ row.budget.done_count >= RequiredDoneTotal(sessions, row.queue_by_session)

\* a listed filing id of the day that no processed EDINET record carries
HasUnmatchedFiling(sw, d) ==
    /\ ~sw.days[d].probe.raises
    /\ \E doc \in sw.days[d].probe.docs :
          /\ _edinet_doc_id(doc) # NoDocId
          /\ ~\E r \in sw.item_rows :
                 /\ r.source_type = "edinet"
                 /\ _edinet_doc_id_from_url(r.source_url) = _edinet_doc_id(doc)

\* the days of the window that are incomplete or have an unmatched filing
FlaggedDays(sw) ==
    {d \in 1..Len(sw.days) :
        \/ ~_is_intel_recovery_day_complete(SessionsOfMode(sw.mode), sw.days[d].row.budget,
                                            sw.days[d].row.queue_by_session)
        \/ HasUnmatchedFiling(sw, d)}

\* the earliest min(max_days_per_run, n) of them, all of them without a limit
ExpectedDays(sw) ==
    IF sw.max_days_per_run <= 0 THEN FlaggedDays(sw)
    ELSE {d \in FlaggedDays(sw) :
            Cardinality({e \in FlaggedDays(sw) : e < d}) < sw.max_days_per_run}

ExpectedCalls(sw) ==
    {<<d, sn>> : d \in ExpectedDays(sw), sn \in SeqToSet(SessionsOfMode(sw.mode))}

\* C18: a sweep calls the pipeline only for the earliest
\* min(max_days_per_run, n) flagged days, at most once per day and required
\* session; a sweep that returns ok has made every one of these calls, and a
\* sweep that finds no flagged day makes none
C18_SweepInvokesEarliestGaps ==
    /\ SeqToSet(sweep.calls) \subseteq ExpectedCalls(sweep)
    /\ \A i, j \in 1..Len(sweep.calls) : i < j => sweep.calls[i] # sweep.calls[j]
    /\ (sweep.pc = "returned" /\ sweep.status = "ok")
          => /\ SeqToSet(sweep.calls) = ExpectedCalls(sweep)
             /\ sweep.calls # <<>>
    /\ (sweep.pc = "returned" /\ sweep.status = "no_gap")
          => FlaggedDays(sweep) = {} /\ sweep.calls = <<>>
    /\ (sweep.pc = "returned" /\ sweep.status \notin {"ok", "raised"})
          => sweep.calls = <<>>

\* a sweep limited to one day has found an incomplete day and an earlier
\* complete day with an unmatched filing, and has called for the earlier one
C18_EarlierGapDayInvoked ==
    /\ sweep.pc = "returned" /\ sweep.status = "ok"
    /\ sweep.max_days_per_run = 1
    /\ sweep.edinet_gap_days = <<1>>
    /\ FlaggedDays(sweep) = {1, 2}
    /\ sweep.calls = <<<<1, "morning">>, <<1, "close">>>>

(***************************************************************************)
(* Properties of the scheduler process                                     *)
(***************************************************************************)
\* the jobs past the acquire and before the end of the finally clause
InsideGuard == {j \in JobIds : sched.pc[j] \in {"body", "finally"}}

\* C19: at most one job body runs at a time whatever the job ids, and the
\* mutex is held exactly while one does; a fire that finds the mutex taken
\* ends without running and without waiting; when the body has returned or
\* raised the mutex is released
C19_OneJobBodyAtATime ==
    /\ [](/\ Cardinality(InsideGuard) <= 1
          /\ sched.mutex <=> InsideGuard # {})
    /\ [][\A j \in JobIds :
            (sched.pc[j] = "called" /\ sched'.pc[j] # "called")
               => IF InsideGuard # {}
                  THEN sched'.pc[j] = "idle" /\ sched'.skipped = sched.skipped + 1
                  ELSE sched'.pc[j] = "body"]_vars
    /\ [][\A j \in JobIds :
            (sched.pc[j] = "finally" /\ sched'.pc[j] # "finally")
               => ~sched'.mutex /\ sched'.pc[j] = "idle"]_vars

\* a job body runs after an earlier body raised and after a fire was skipped
C19_RunsAfterRaiseAndSkip ==
    /\ sched.raised > 0
    /\ sched.skipped > 0
    /\ \E j \in JobIds : sched.pc[j] = "body" /\ sched.outcome[j] = "none"
    /\ \E j \in JobIds : sched.outcome[j] = "raised" /\ sched.pc[j] = "idle"

(***************************************************************************)
(* Properties of the persisted record                                      *)
(***************************************************************************)
\* C20 as stated: the persisted record's source_url and source_type are the
\* values resolved from the evidence, its published_at is the date resolved
\* from the evidence, and none of the three is null
C20_SourceFieldsNeverNull ==
    llm.item # NoItem =>
        /\ llm.item.source_url = FirstNonEmpty(llm.source_payload, "source_url", Unknown)
        /\ llm.item.source_type = FirstNonEmpty(llm.source_payload, "source_type", Unknown)
        /\ llm.item.source_url \notin {NoneValue, EmptyText}
        /\ llm.item.source_type \notin {NoneValue, EmptyText}
        /\ llm.item.published_at # NoDatetime

\* the same with a published_at that is null exactly when no evidence item
\* has one or the first one that has is written in no accepted format
C20_UrlAndTypeNeverNull ==
    llm.item # NoItem =>
        LET published == FirstNonEmpty(llm.source_payload, "published_at", NoneValue)
        IN  /\ llm.item.source_url = FirstNonEmpty(llm.source_payload, "source_url", Unknown)
            /\ llm.item.source_type
                  = FirstNonEmpty(llm.source_payload, "source_type", Unknown)
            /\ llm.item.source_url \notin {NoneValue, EmptyText}
            /\ llm.item.source_type \notin {NoneValue, EmptyText}
            /\ (llm.item.published_at = NoDatetime)
                  <=> (published = NoneValue \/ published.val \notin ParseableDates)
            /\ llm.item.published_at # NoDatetime
                  => llm.item.published_at.val = published.val

(***************************************************************************)
(* Properties of the fallback                                              *)
(***************************************************************************)
\* every request of the invocation raised: the last one did and no output
\* was ever handed to the repair
EveryCallErrored ==
    /\ llm.pc = "returned"
    /\ llm.repair_requests = 0
    /\ RequestRaises(llm.last_response)

\* C21 as stated: when every model call errors the result is not valid, its
\* summary is not empty and its data_gaps hold an entry that names the
\* error, for every evidence
C21_ErrorNamedInGaps ==
    EveryCallErrored =>
        /\ ~llm.result.valid
        /\ llm.result.payload.summary # ""
        /\ "llm_error" \in SeqToSet(llm.result.payload.data_gaps)

\* the same for errors whose text is not empty; an error without a text
\* leaves no entry
C21_ErrorWithTextNamedInGaps ==
    EveryCallErrored =>
        /\ ~llm.result.valid
        /\ llm.result.payload.summary # ""
        /\ Len(llm.result.payload.data_gaps) <= 4
        /\ ("llm_error" \in SeqToSet(llm.result.payload.data_gaps))
              <=> ErrorText(llm.last_response) # ""

\* every call failed for evidence without text, facts and date: five gaps
\* were found and the four kept hold the error
C21_FiveGapsCutToFour ==
    /\ EveryCallErrored
    /\ ~_has_substantive_full_text(llm.source_payload)
    /\ ~_has_xbrl_facts(llm.source_payload)
    /\ llm.result.payload.published_at = NoneValue
    /\ llm.result.payload.data_gaps
          = <<"full_text_insufficient", "xbrl_missing", "published_at_missing", "llm_error">>

(***************************************************************************)
(* Properties of the validation                                            *)
(***************************************************************************)
\* C22 as stated: a request, the first call's or the repair's, that is
\* answered with an object of exactly the fields the prompt asks for ends
\* the invocation with a valid result and no error
C22_HintedShapeIsValid ==
    [][(llm'.requests = llm.requests + 1 /\ llm'.last_response = "content_hinted")
          => /\ llm'.pc = "returned"
             /\ llm'.result.valid
             /\ llm'.result.error = NoneValue]_vars

\* an invocation whose last answer has the fields the prompt asks for
\* returns the fallback; an answer with every property of the schema is valid
C22_HintedShapeIsRejected ==
    llm.pc = "returned" =>
        /\ llm.last_response = "content_hinted" => ~llm.result.valid
        /\ llm.last_response = "content_valid" => llm.result.valid

(***************************************************************************)
(* Properties of the evidence extraction                                   *)
(***************************************************************************)
\* the claim's conditions for passing a variant over
PassedOver(file_type) ==
    LET payload == search.downloads[file_type]
    IN  \/ payload.result = "raises"
        \/ payload.result = "empty"
        \/ ~_is_expected_edinet_payload(payload, file_type)
        \/ payload.content = "nothing"
        \/ payload.magic = "PDF"

\* the positions of the configured variants that are not passed over
NotPassedOver == {i \in 1..Len(search.file_types) : ~PassedOver(search.file_types[i])}

FilingItems ==
    {i \in 1..Len(search.items) : search.items[i].source_type = "edinet"}

\* C23: the variants are tried in the configured order and the first one
\* that is not passed over ends the search; the filing's evidence item
\* carries that variant's text and facts and a URL that names its type
C23_FirstUsableVariant ==
    /\ search.tried = SubSeq(search.file_types, 1, Len(search.tried))
    /\ \A i \in 1..Len(search.tried) :
          i < Len(search.tried) => PassedOver(search.tried[i])
    /\ search.pc \in {"append", "ir", "mcp"} \/ (search.pc = "returned" /\ ~search.raised)
          => /\ NotPassedOver # {} /\ search.has_doc_id
                => LET first == CHOOSE i \in NotPassedOver :
                                    \A j \in NotPassedOver : i <= j
                   IN  /\ search.extracted
                       /\ Len(search.tried) = first
                       /\ search.used_file_type = search.file_types[first]
             /\ NotPassedOver = {} => ~search.extracted
    /\ \A i \in FilingItems :
          LET item == search.items[i]
          IN  search.extracted
                => /\ item.source_url.type = search.used_file_type
                   /\ item.text_of = search.used_file_type
                   /\ item.facts_of \in {search.used_file_type, Metadata}
                   /\ item.facts_of = Metadata
                         <=> ~XbrlOk(search.downloads[search.used_file_type])
                   /\ ~PassedOver(search.used_file_type)

\* the primary type's payload is an error page, the item was built from the
\* second type and its URL names the second type
C23_SecondVariantUsed ==
    /\ search.pc = "returned"
    /\ ~search.raised
    /\ search.file_types = <<5, 1, 2>>
    /\ search.downloads[5] = Download("payload", "other", "text")
    /\ search.tried = <<5, 1>>
    /\ FilingItems # {}
    /\ \A i \in FilingItems :
          /\ search.items[i].source_url.type = 1
          /\ search.items[i].text_of = 1

\* C24 as stated: the fetch never raises, whatever the downloads, the page
\* and the MCP backend answer; it returns a list
C24_FetchNeverRaises ==
    ~search.raised

\* the fetch raises only out of the XBRL extraction of a payload with the
\* expected signature; failed downloads, empty and mismatching payloads,
\* failing page and MCP requests are passed over
C24_RaisesOnlyOnNonFiniteValue ==
    search.raised
        => /\ search.tried # <<>>
           /\ LET file_type == search.tried[Len(search.tried)]
              IN  /\ XbrlRaises(search.downloads[file_type])
                  /\ _is_expected_edinet_payload(search.downloads[file_type], file_type)

(***************************************************************************)
(* Properties of the ranking                                               *)
(***************************************************************************)
\* C25 as stated: two candidates with different codes never get equal
\* scores, also when all their signals are identical
C25_ScoresNeverEqual ==
    ranker.pc # "start" =>
        \A i, j \in 1..Len(ranker.items) :
            (/\ ranker.items[i].code # ranker.items[j].code
             /\ Signals(ranker.items[i]) = Signals(ranker.items[j]))
               => calculate_priority(ranker.items[i]) # calculate_priority(ranker.items[j])

\* the ranking is a strict order by score descending, then code ascending,
\* and is the same for every order of the same candidates
C25_StrictOrderForEveryInputOrder ==
    /\ ranker.pc # "start" =>
          /\ Len(ranker.rows) = Len(ranker.items)
          /\ \A i, j \in 1..Len(ranker.rows) :
                (i < j /\ ranker.rows[i] # ranker.rows[j])
                   => RankBefore(ranker.rows[i], ranker.rows[j])
    /\ ranker.pc = "ranked_again" => ranker.again = ranker.rows

(***************************************************************************)
(* Properties of the counting of one run                                   *)
(***************************************************************************)
\* the entries a run leaves in status done: q.status = "done" of line 1080
RunDoneEntries(r) ==
    {k \in Keys : /\ <<k, "status">> \in r.dirty
                  /\ r.view[k] # <<>>
                  /\ Head(r.view[k]).status = "done"}

\* the entries a run leaves in status failed
RunFailedEntries(r) ==
    {k \in Keys : /\ <<k, "status">> \in r.dirty
                  /\ r.view[k] # <<>>
                  /\ Head(r.view[k]).status = "failed"}

\* process p commits in this step
Commits(p) ==
    /\ runs[p].pc = "body"
    /\ runs[p].loop_rows = <<>>
    /\ runs'[p] = IdleRun
    /\ lastStep'.returned = "ok"

\* C26 as stated: at every commit the amount the run adds to the done
\* counters equals the number of entries it left done and the number of
\* records it inserted; a failed entry leaves no record and is not counted
C26_CountEqualsDoneEqualsRecords ==
    [][\A p \in Procs :
         Commits(p) =>
            /\ runs[p].done = Cardinality(RunDoneEntries(runs[p]))
            /\ runs[p].done = runs[p].new_items
            /\ items'[runs[p].date] - items[runs[p].date]
                  = Cardinality(RunDoneEntries(runs[p]))]_vars

\* what the commit does guarantee: every entry left done is counted and has
\* its record, no more is counted than records are inserted, and what goes
\* beyond the done entries belongs to entries the run left failed
C26_DoneEntriesCountedWithRecord ==
    [][\A p \in Procs :
         Commits(p) =>
            /\ Cardinality(RunDoneEntries(runs[p])) <= runs[p].done
            /\ runs[p].done <= runs[p].new_items
            /\ runs[p].new_items
                  <= Cardinality(RunDoneEntries(runs[p]))
                     + Cardinality(RunFailedEntries(runs[p]))
            /\ items'[runs[p].date] = items[runs[p].date] + runs[p].new_items]_vars

(***************************************************************************)
(* Properties of the budget row under overlapping runs                     *)
(***************************************************************************)
\* the committed counters of a date, zero while the row does not exist
CommittedBudget(b, d) == IF b[d] = NoRow THEN ZeroBudget ELSE b[d]

\* C27 as stated: on a backend with advisory locks and with positive caps,
\* where only a morning run and a close run of one date can overlap, every
\* commit leaves done_count at its prior value plus the run's done count,
\* equal to morning_done + close_done, and within the daily cap
C27_OverlapKeepsBudgetRow ==
    [][\A p \in Procs :
         (/\ Commits(p)
          /\ cfg.backend_has_advisory_locks
          /\ ~cfg.process_all_candidates
          /\ cfg.daily_budget > 0 /\ cfg.morning_cap > 0 /\ cfg.close_cap > 0) =>
            LET d == runs[p].date
                before == CommittedBudget(budget, d)
                after == CommittedBudget(budget', d)
            IN  /\ after.done_count = before.done_count + runs[p].done
                /\ after.done_count = after.morning_done + after.close_done
                /\ after.done_count <= cfg.daily_budget]_vars

\* what holds under overlap: the session counter of the committing run and
\* done_count are the values the run read at its start plus its own done
\* count, and the other session's counter is left as committed
C27_CommitWritesOwnView ==
    [][\A p \in Procs :
         (Commits(p) /\ runs[p].done > 0) =>
            LET r == runs[p]
                after == CommittedBudget(budget', r.date)
                before == CommittedBudget(budget, r.date)
            IN  /\ after.done_count = r.budget.done_count + r.done
                /\ IF r.session = "morning"
                   THEN /\ after.morning_done = r.budget.morning_done + r.done
                        /\ after.close_done = before.close_done
                   ELSE /\ after.close_done = r.budget.close_done + r.done
                        /\ after.morning_done = before.morning_done]_vars

(***************************************************************************)
(* Repeated runs of one (date, session) pair, each from the lock to the    *)
(* commit in one step                                                      *)
(***************************************************************************)
\* the pair whose runs are repeated
RetryDate == "2026-02-13"
RetrySession == "close"
\* the durable records are counted up to this number
MaxRecords == 3

\* the outcomes after which the run reaches its commit; after a failed
\* flush the run is rolled back and leaves the database as it was
CommittingOutcomes == Outcomes \ {"raise_in_flush"}

\* the loop of lines 1020-1117 over the first rows of loop_rows
RECURSIVE ProcessRows(_, _)
ProcessRows(r, outcomes) ==
    IF outcomes = <<>> THEN r
    ELSE ProcessRows(ProcessRow(r, Head(r.loop_rows), Head(outcomes)), Tail(outcomes))

\* one run: lock, budget, enqueue, reset, the loop up to the row before
\* which the pause signal is seen (if it is), the counters and the commit
RunToCommit(found, paused) ==
    /\ \A p \in Procs : runs[p].pc = "idle"
    /\ \E start \in {DeepDiveStart(RetryDate, RetrySession, Found(found, "fund"),
                                   Found(found, "docs"), Found(found, "theme"))} :
       \E order \in PendingOrders(start.run.view,
                                  PendingKeys(start.run.view, RetryDate, RetrySession,
                                              cfg.process_all_candidates)) :
       \E rows \in {IF start.run.limited /\ start.run.max_run <= 0 THEN <<>>
                    ELSE Prefix(order, start.run.limited, start.run.max_run)} :
       \E n \in 0..Len(rows) :
          /\ paused <=> n < Len(rows)
          /\ \E outcomes \in [1..n -> CommittingOutcomes] :
             \E r \in {[ProcessRows([start.run EXCEPT !.loop_rows = rows], outcomes)
                          EXCEPT !.loop_rows = <<>>]} :
                /\ queue' = [k \in Keys |-> FlushRows(queue[k], r, k)]
                /\ budget' = [budget EXCEPT ![RetryDate] = FlushBudget(@, r)]
                /\ items' = [items EXCEPT
                               ![RetryDate] = Min(@ + r.new_items, MaxRecords)]
                /\ lastStep' =
                     Step(IF paused THEN "paused" ELSE "ok", r.done,
                          StatusChanges(start.run.view, r.view, Keys, "process"))
    /\ UNCHANGED <<cfg, advisoryLocks, runs, started, llm, sweep, sched, search,
                   ranker>>

\* a run during which _should_pause_for_upcoming_tech stays false
FullRun == \E found \in [Codes -> Discoveries] : RunToCommit(found, FALSE)

\* a run that breaks out of its loop at the pause signal
PausedRun == \E found \in [Codes -> Discoveries] : RunToCommit(found, TRUE)

InitRetry ==
    /\ cfg = DefaultConfig
    /\ queue = [k \in Keys |-> <<>>]
    /\ budget \in [BusinessDates -> {NoRow, ZeroBudget}]
    /\ items = [d \in BusinessDates |-> 0]
    /\ advisoryLocks = {}
    /\ runs = [p \in Procs |-> IdleRun]
    /\ started = 0
    /\ lastStep = Step("none", 0, {})
    /\ llm = IdleLlm
    /\ sweep = IdleSweep
    /\ sched = IdleSched
    /\ search = IdleSearch
    /\ ranker = IdleRanker

NextRetry == FullRun \/ PausedRun

\* runs keep being invoked and the pause signal does not stay on: again and
\* again a run goes through its loop without a pause
SpecRetry == InitRetry /\ [][NextRetry]_vars /\ WF_vars(FullRun)

(***************************************************************************)
(* Properties of the repeated runs                                         *)
(***************************************************************************)
RetryKeys == {build_idempotency_key(RetryDate, RetrySession, c) : c \in Codes}

IsPending(k) == queue[k] # <<>> /\ Head(queue[k]).status = "pending"

\* the allowance of the next run of the pair is positive
BudgetRemains ==
    MaxRunOf(CommittedBudget(budget, RetryDate), RetrySession) > 0

\* C28 as stated: while runs of the pair keep being invoked without a pause
\* and budget remains, an entry that a run left pending is eventually
\* processed (done, skipped or failed)
C28_PendingEventuallyProcessed ==
    \A k \in RetryKeys : IsPending(k) ~> (~IsPending(k) \/ ~BudgetRemains)

\* an entry stays pending over a run that was not paused and had allowance
\* only while that run processed other entries
C28_LeftPendingBehindOthers ==
    [][\A k \in RetryKeys :
         (/\ IsPending(k) /\ BudgetRemains
          /\ lastStep'.returned = "ok"
          /\ queue'[k] # <<>> /\ Head(queue'[k]).status = "pending")
            => \E c \in lastStep'.changes : c[3] = "process"]_vars

(***************************************************************************)
(* Repeated sweeps of run_intel_auto_recover over one window whose         *)
(* listings no longer change; every run_intel_only call returns 'ok', is   *)
(* not paused, and nothing raises while it processes an entry              *)
(***************************************************************************)
\* queue rows one session of one day can have
MaxDayRows == 2

\* listed filings whose row carries a security code (_edinet_code, lines
\* 46-56, returns it); the other filings of a listing (funds, filers that
\* are not listed) are skipped by line 917 and are nobody's candidate
CodedDocIds == {"S100AAAA"}

\* the intel_items rows a record of that day can add: one whose source_url
\* is the document URL of a filing of a candidate, or one of another source
DayItemRows(day) ==
    {ItemRow(token, "upper", "edinet") :
        token \in (_seed_doc_ids(day.probe.docs) \cap CodedDocIds)}
    \cup {ItemRow("", "no_document_path", "unknown")}

\* the rows of one run: enqueued new rows, then the first rows of the
\* pending and failed ones up to the allowance are processed, persisted of
\* them to done with a record (counted), the others to skipped
ProcessedDay(day, session_name, b0, enqueued, persisted, new_items) ==
    LET c == day.row.queue_by_session[session_name]
        pending == c["pending"] + c["failed"] + enqueued
        loop_rows == IF IsLimited(session_name)
                     THEN Min(pending, MaxRunOf(b0, session_name)) ELSE pending
    IN  [row |->
            [budget |-> BudgetAfter(b0, session_name, persisted),
             queue_by_session |->
                [day.row.queue_by_session EXCEPT ![session_name] =
                    StatusCounts(c["done"] + persisted,
                                 c["skipped"] + loop_rows - persisted,
                                 pending - loop_rows, 0)]],
         item_rows |-> new_items,
         loop_rows |-> loop_rows]

\* what run_intel_only(session_name, d) can leave of the day's rows when it
\* returns 'ok': the budget row exists (lines 888-892); without allowance
\* nothing else changes (line 906)
RunLeaves(day, session_name) ==
    LET b0 == IF day.row.budget = NoRow THEN BudgetRow(0, 0, 0) ELSE day.row.budget
        c == day.row.queue_by_session[session_name]
        limited == IsLimited(session_name)
        max_run == MaxRunOf(b0, session_name)
        room == IF limited THEN Min(max_run, MaxDayRows - TotalRows(c))
                ELSE MaxDayRows - TotalRows(c)
    IN  IF limited /\ max_run <= 0
        THEN {[row |-> [day.row EXCEPT !.budget = b0], item_rows |-> {}]}
        ELSE {[row |-> after.row, item_rows |-> after.item_rows] :
                after \in
                  {x \in {ProcessedDay(day, session_name, b0, enqueued, persisted,
                                       new_items) :
                             enqueued \in 0..Max(0, room),
                             persisted \in 0..MaxDayRows,
                             new_items \in SUBSET DayItemRows(day)} :
                      /\ x.row.queue_by_session[session_name]["skipped"]
                            >= c["skipped"]
                      /\ (x.item_rows = {}) <=> (x.row.budget.done_count
                                                   = b0.done_count)
                      /\ Cardinality(x.item_rows)
                            <= x.row.budget.done_count - b0.done_count}}

\* lines 665-676 with a call of run_intel_only that returns 'ok', and the
\* rows that call leaves
InvokeRunOk ==
    /\ sweep.pc = "invoke"
    /\ LET sessions == SessionsOfMode(sweep.mode)
           n == Len(sweep.calls)
           d == sweep.targets[(n \div Len(sessions)) + 1]
           session_name == sessions[(n % Len(sessions)) + 1]
           last_of_day == (n % Len(sessions)) + 1 = Len(sessions)
           first_of_day == n % Len(sessions) = 0
           day_ok == first_of_day \/ sweep.day_ok
       IN  \E left \in RunLeaves(sweep.days[d], session_name) :
              LET counted == [sweep EXCEPT
                                !.calls = Append(@, <<d, session_name>>),
                                !.day_ok = day_ok,
                                !.repaired_days = IF last_of_day /\ day_ok THEN @ + 1
                                                  ELSE @,
                                !.days[d].row = left.row,
                                !.item_rows = @ \cup left.item_rows]
              IN  sweep' =
                     IF Len(counted.calls) = Len(sweep.targets) * Len(sessions)
                     THEN SweepReturn(counted, "ok")
                     ELSE counted
    /\ UNCHANGED <<pipelineVars, llm, sched, search, ranker>>

\* the scheduler's next auto_recover_job: the same window is read again
Resweep ==
    /\ sweep.pc = "returned"
    /\ sweep' = [IdleSweep EXCEPT !.pc = "start", !.mode = sweep.mode,
                                  !.max_days_per_run = sweep.max_days_per_run,
                                  !.days = sweep.days,
                                  !.item_rows = sweep.item_rows]
    /\ UNCHANGED <<pipelineVars, llm, sched, search, ranker>>

\* the sweeps that are capped to one day per run
ConvergeSweeps == {sw \in StartSweeps : sw.entry = "enabled" /\ sw.max_days_per_run = 1}

InitConverge ==
    /\ cfg = DefaultConfig
    /\ queue = [k \in Keys |-> <<>>]
    /\ budget = [d \in BusinessDates |-> NoRow]
    /\ items = [d \in BusinessDates |-> 0]
    /\ advisoryLocks = {}
    /\ runs = [p \in Procs |-> IdleRun]
    /\ started = 0
    /\ lastStep = Step("none", 0, {})
    /\ llm = IdleLlm
    /\ sweep \in ConvergeSweeps
    /\ sched = IdleSched
    /\ search = IdleSearch
    /\ ranker = IdleRanker

NextConverge == ScanDays \/ ProbeListings \/ InvokeRunOk \/ Resweep

\* the job keeps firing and every sweep runs to its return
SpecConverge == InitConverge /\ [][NextConverge]_vars /\ WF_vars(NextConverge)

(***************************************************************************)
(* Properties of the repeated sweeps                                       *)
(***************************************************************************)
NoGapReturned == sweep.pc = "returned" /\ sweep.status = "no_gap"

\* C29 as stated: when every re-invoked run returns 'ok' and the listings
\* no longer change, repeated sweeps eventually classify every day of the
\* window complete and a sweep returns no_gap
C29_SweepsConverge == <>NoGapReturned

\* a sweep returns no_gap only for a window in which every day is
\* classified complete and no probed listing holds an unmatched filing
C29_NoGapMeansWindowClean ==
    NoGapReturned =>
        /\ sweep.done_dates = 1..Len(sweep.days)
        /\ \A d \in 1..Len(sweep.days) : ~HasUnmatchedFiling(sweep, d)

(***************************************************************************)
(* main.py: the startup catch-up phase and the intel background job        *)
(***************************************************************************)
\* lines 242-262: the phase _init_startup_catchup_state sets before the
\* scheduler starts
_init_startup_catchup_state(enabled, tech_on_startup, fund_on_startup) ==
    IF enabled /\ (tech_on_startup \/ fund_on_startup)
    THEN IF tech_on_startup THEN "tech" ELSE "fund"
    ELSE "done"

\* a test that lets the job through once the tech phase is over
IsPastTechPhase(phase) == phase # "tech"

\* lines 88-89
_is_startup_catchup_done(phase) == phase = "done"

\* what run_auto_recover and run_fund_auto_recover return
RecoveryResults ==
    [status : {"disabled", "no_gap", "no_business_days", "no_target", "holiday_skip",
               "locked", "ok"},
     missing_days : {0, 1}, repaired_days : {0, 1}]

\* lines 92-100
_is_recovery_phase_complete(result) ==
    IF result.status \in {"disabled", "no_gap", "no_business_days", "no_target",
                          "holiday_skip"}
    THEN TRUE
    ELSE IF result.status # "ok" THEN FALSE
    ELSE result.missing_days <= result.repaired_days

\* leaving the body of a job function by a return, or by an exception of
\* the pipeline call
Returned(s, j) == [s EXCEPT !.pc[j] = "finally", !.outcome[j] = "returned"]

Raised(s, j) ==
    [s EXCEPT !.pc[j] = "finally", !.outcome[j] = "raised", !.raised = @ + 1]

\* lines 197-237: the checks before the loop and one pass of the loop of
\* _run_startup_catchup_step_job; _should_pause_startup_catchup answers
\* either way
CatchupStep ==
    LET j == "startup_catchup_job"
        phase == sched.startup_catchup_phase
    IN  /\ sched.pc[j] = "body"
        /\ \E pause \in BOOLEAN, raises \in BOOLEAN, result \in RecoveryResults :
              sched' =
                 IF pause \/ phase = "done" THEN Returned(sched, j)
                 ELSE IF raises /\ phase \in {"tech", "fund"} THEN Raised(sched, j)
                 ELSE IF phase = "tech"
                 THEN IF _is_recovery_phase_complete(result)
                      THEN [sched EXCEPT !.startup_catchup_phase =
                               IF sched.fund_on_startup THEN "fund" ELSE "done"]
                      ELSE Returned(sched, j)
                 ELSE IF phase = "fund"
                 THEN [Returned(sched, j) EXCEPT !.startup_catchup_phase =
                          IF _is_recovery_phase_complete(result) THEN "done" ELSE @]
                 ELSE [Returned(sched, j) EXCEPT !.startup_catchup_phase = "done"]
        /\ UNCHANGED <<pipelineVars, llm, sweep, search, ranker>>

\* lines 169-183: the body of _run_intel_background_job, which returns at
\* once while the phase is not done and calls run_intel_background otherwise
IntelBackground ==
    LET j == "intel_background_job"
        phase == sched.startup_catchup_phase
    IN  /\ sched.pc[j] = "body"
        /\ \E raises \in BOOLEAN :
              sched' =
                 IF ~_is_startup_catchup_done(phase)
                 THEN [Returned(sched, j) EXCEPT !.background_skipped = TRUE]
                 ELSE [(IF raises THEN Raised(sched, j) ELSE Returned(sched, j))
                         EXCEPT !.background_ran_in = phase]
        /\ UNCHANGED <<pipelineVars, llm, sweep, search, ranker>>

\* the jobs whose body is followed line by line
PhaseJobs == {"startup_catchup_job", "intel_background_job"}

InitStartup ==
    /\ cfg = DefaultConfig
    /\ queue = [k \in Keys |-> <<>>]
    /\ budget = [d \in BusinessDates |-> NoRow]
    /\ items = [d \in BusinessDates |-> 0]
    /\ advisoryLocks = {}
    /\ runs = [p \in Procs |-> IdleRun]
    /\ started = 0
    /\ lastStep = Step("none", 0, {})
    /\ llm = IdleLlm
    /\ sweep = IdleSweep
    /\ \E enabled \in BOOLEAN, tech_on_startup \in BOOLEAN, fund_on_startup \in BOOLEAN :
          sched = [IdleSched EXCEPT
                     !.startup_catchup_phase =
                         _init_startup_catchup_state(enabled, tech_on_startup,
                                                     fund_on_startup),
                     !.fund_on_startup = fund_on_startup]
    /\ search = IdleSearch
    /\ ranker = IdleRanker

NextStartup ==
    \/ \E j \in JobIds : Fire(j)
    \/ \E j \in JobIds : Acquire(j)
    \/ \E j \in JobIds \ PhaseJobs : BodyReturn(j)
    \/ \E j \in JobIds \ PhaseJobs : BodyRaise(j)
    \/ \E j \in JobIds : Release(j)
    \/ CatchupStep
    \/ IntelBackground

SpecStartup == InitStartup /\ [][NextStartup]_vars

(***************************************************************************)
(* Properties of the startup catch-up phase                                *)
(***************************************************************************)
\* C30: the phase only moves tech -> fund, tech -> done or fund -> done, so
\* it never leaves done, and the intel background job calls the pipeline
\* only while the phase is done
C30_PhaseMovesForwardOnly ==
    /\ [][sched'.startup_catchup_phase # sched.startup_catchup_phase
            => <<sched.startup_catchup_phase, sched'.startup_catchup_phase>>
                  \in {<<"tech", "fund">>, <<"tech", "done">>, <<"fund", "done">>}]_vars
    /\ [](sched.background_ran_in \in {"none", "done"})
    /\ [][sched'.background_ran_in # sched.background_ran_in
            => sched.startup_catchup_phase = "done"]_vars

\* the background job was held back during the catch-up and ran after the
\* phase had passed from tech through fund to done
C30_HeldBackThenRan ==
    /\ sched.background_skipped
    /\ sched.background_ran_in = "done"
    /\ sched.fund_on_startup

====
